---------------------------- MODULE Spec2Model ----------------------------
(***************************************************************************)
(* A model of the source abstraction of the linter                         *)
(* (lib/languages/js/source-code/source-code.js) and of the rule           *)
(* class-methods-use-this (lib/rules/class-methods-use-this.js).           *)
(*                                                                         *)
(* The module holds one state machine per component, each over its own     *)
(* group of variables; the variables of the other components are idle.     *)
(*   SpecPos   the line index and the offset <-> (line, column) queries    *)
(*   SpecTok   the merged token/comment timeline and isSpaceBetween        *)
(*   SpecTrav  SourceCode.traverse() over a tree                           *)
(*   SpecRule  the rule's handlers driven by enter/leave events            *)
(* Offsets are 0-based as in the source; TLA+ sequences are 1-based, so    *)
(* the character at offset i of text is text[i + 1].                       *)
(***************************************************************************)
EXTENDS Integers, Sequences, FiniteSets, TLC

VARIABLES
    \* ---- position index (SourceCode constructor, lines 520-545)
    text,               \* this.text, a sequence of characters
    lines,              \* this.lines
    lineStartIndices,   \* this.lineStartIndices
    lastIndex,          \* lineEndingPattern.lastIndex
    posPc,              \* "scan" while the constructor's loop runs, then "ready"
    posCall,            \* the last query made and what it returned
    \* ---- token/comment store (sortedMerge, isSpaceBetween)
    tokens,             \* ast.tokens
    comments,           \* ast.comments
    tokensAndComments,  \* this.tokensAndComments (result while it is built)
    tokenIndex,         \* sortedMerge's tokenIndex
    commentIndex,       \* sortedMerge's commentIndex
    tokPc,              \* "merge" while sortedMerge runs, then "ready"
    sbCall,             \* the last isSpaceBetween call and what it returned
    \* ---- traversal (SourceCode.traverse)
    ast,                \* this.ast: the tree, its nodes numbered in source order
    parentField,        \* the parent property of each node
    stepsDefined,       \* whether this.#steps has been assigned
    steps,              \* this.#steps
    walk,               \* the Traverser's path: the nodes entered and not yet left
    entered,            \* the number of nodes the Traverser has entered
    emitted,            \* the number of events the code path analyzer has emitted
    travPc,             \* "idle", or "walking" inside a traverse() call
    travRet,            \* what the last traverse() call returned
    walks,              \* the number of walks of the tree begun
    \* ---- the rule class-methods-use-this, driven by enter/leave events
    options,            \* context.options[0]
    stack,              \* the rule's stack of `this`-used flags
    path,               \* the nodes entered and not yet left, the root first
    event,              \* the last event delivered: its phase and its node
    reported,           \* whether the handlers of the last event reported a problem
    underflow,          \* whether stack.pop() was ever called on an empty stack
    rulePc,             \* "run" while events are delivered, then "done"
    \* ---- inline configuration comments
    shebangText,        \* what follows `#!` on the first line of the text, if any
    astComments,        \* ast.comments
    configNodes,        \* this[caches].get("configNodes")
    disableDirectives,  \* this[caches].get("disableDirectives")
    cmtCall,            \* the call in progress on the comments and what it returns
    scans,              \* the number of scans of ast.comments for configuration
    \* ---- globals and the global scope
    configGlobals,      \* varsCache.get("configGlobals")
    inlineGlobals,      \* varsCache.get("inlineGlobals")
    exportedVariables,  \* varsCache.get("exportedVariables")
    globalScope,        \* this.scopeManager.scopes[0]
    scopeBefore,        \* the global scope as the last call of finalize() found it
    finalizeCalls,      \* the number of calls of finalize()
    scopePc,            \* how the last call of finalize() ended
    \* ---- queries on the scopes
    scopes,             \* this.scopeManager.scopes and the nodes they are keyed to
    scopesCache,        \* this[caches].get("scopes")
    globalRefCache,     \* this[caches].get("isGlobalReference")
    queries,            \* the number of queries made
    qryCall,            \* the query in progress and what it returns
    \* ---- getNodeByRangeIndex
    rangeAst,           \* this.ast: the tree and the range of each node
    rangeWalk           \* the call in progress: its index, result and position

posVars == <<text, lines, lineStartIndices, lastIndex, posPc, posCall>>

tokVars == <<tokens, comments, tokensAndComments, tokenIndex, commentIndex,
             tokPc, sbCall>>

travVars == <<ast, parentField, stepsDefined, steps, walk, entered, emitted,
              travPc, travRet, walks>>

ruleVars == <<options, stack, path, event, reported, underflow, rulePc>>

cmtVars ==
    <<shebangText, astComments, configNodes, disableDirectives, cmtCall, scans>>

scopeVars ==
    <<configGlobals, inlineGlobals, exportedVariables, globalScope, scopeBefore,
      finalizeCalls, scopePc>>

qryVars == <<scopes, scopesCache, globalRefCache, queries, qryCall>>

rngVars == <<rangeAst, rangeWalk>>

vars == <<posVars, tokVars, travVars, ruleVars, cmtVars, scopeVars, qryVars,
          rngVars>>

\* What the actions of one component leave alone: the other components.
notPos ==
    <<tokVars, travVars, ruleVars, cmtVars, scopeVars, qryVars, rngVars>>

notTok ==
    <<posVars, travVars, ruleVars, cmtVars, scopeVars, qryVars, rngVars>>

notTrav ==
    <<posVars, tokVars, ruleVars, cmtVars, scopeVars, qryVars, rngVars>>

notRule ==
    <<posVars, tokVars, travVars, cmtVars, scopeVars, qryVars, rngVars>>

notCmt ==
    <<posVars, tokVars, travVars, ruleVars, qryVars, rngVars>>

notScope ==
    <<posVars, tokVars, travVars, ruleVars, cmtVars, qryVars, rngVars>>

notRng ==
    <<posVars, tokVars, travVars, ruleVars, cmtVars, scopeVars, qryVars>>

(***************************************************************************)
(* Bounds                                                                  *)
(***************************************************************************)
MaxTextLen == 4

MaxEntries == 4

MaxNodes == 4

MaxEmits == 1

MaxDepth == 7

MaxComments == 2

MaxRefs == 2

MaxQueries == 2

MaxScopedNodes == 3

\* The nodes of a tree searched by range index, and the length of its text.
MaxRangeNodes == 4

MaxOffset == 4

(***************************************************************************)
(* Helpers on sequences                                                    *)
(***************************************************************************)
Last(s) == s[Len(s)]

\* String.prototype.slice(from, to) on 0-based offsets, 0 <= from <= to <= Len(s)
Slice(s, from, to) == [i \in 1..(to - from) |-> s[from + i]]

Min(S) == CHOOSE x \in S : \A y \in S : x <= y

(***************************************************************************)
(* Position index                                                          *)
(***************************************************************************)
\* The characters of a text: an ordinary character, line feed, carriage return.
Chars == {"x", "LF", "CR"}

LineBreakChars == {"LF", "CR"}

Texts == UNION {[1..n -> Chars] : n \in 0..MaxTextLen}

\* The offset of the first line break at or after offset from, or -1.
LineBreakIndex(t, from) ==
    LET hits == {i \in from..(Len(t) - 1) : t[i + 1] \in LineBreakChars}
    IN  IF hits = {} THEN -1 ELSE Min(hits)

\* The length of the line break matched at offset i: CR LF is one line break.
LineBreakLength(t, i) ==
    IF t[i + 1] = "CR" /\ i + 2 <= Len(t) /\ t[i + 2] = "LF" THEN 2 ELSE 1

NoLoc == [line |-> 0, column |-> 0]

NoCall == [fn |-> "none", index |-> 0, loc |-> NoLoc, err |-> "none"]

InitPosFor(t) ==
    /\ text = t
    /\ lines = <<>>
    /\ lineStartIndices = <<0>>
    /\ lastIndex = 0
    /\ posPc = "scan"
    /\ posCall = NoCall

\* The loop iteration with the length of the matched line break taken to be 1.
ScanLineBreakSingleChar ==
    /\ posPc = "scan"
    /\ LineBreakIndex(text, lastIndex) >= 0
    /\ LET index == LineBreakIndex(text, lastIndex)
       IN  /\ lines' = Append(lines, Slice(text, Last(lineStartIndices), index))
           /\ lineStartIndices' = Append(lineStartIndices, index + 1)
           /\ lastIndex' = index + LineBreakLength(text, index)
    /\ UNCHANGED <<text, posPc, posCall, notPos>>

\* One iteration of the constructor's while loop: a line break was matched.
ScanLineBreak ==
    /\ posPc = "scan"
    /\ LineBreakIndex(text, lastIndex) >= 0
    /\ LET index == LineBreakIndex(text, lastIndex)
           next  == index + LineBreakLength(text, index)
       IN  /\ lines' = Append(lines, Slice(text, Last(lineStartIndices), index))
           /\ lineStartIndices' = Append(lineStartIndices, next)
           /\ lastIndex' = next
    /\ UNCHANGED <<text, posPc, posCall, notPos>>

\* The loop ends (exec returns null); the last line is pushed and the object frozen.
ScanEnd ==
    /\ posPc = "scan"
    /\ LineBreakIndex(text, lastIndex) < 0
    /\ lines' = Append(lines, Slice(text, Last(lineStartIndices), Len(text)))
    /\ lastIndex' = 0
    /\ posPc' = "ready"
    /\ UNCHANGED <<text, lineStartIndices, posCall, notPos>>

RECURSIVE BinarySearchLoop(_, _, _, _)
BinarySearchLoop(lineStartIndicesArg, target, low, high) ==
    IF low < high
    THEN LET mid == (low + high) \div 2
         IN  IF target < lineStartIndicesArg[mid + 1]
             THEN BinarySearchLoop(lineStartIndicesArg, target, low, mid)
             ELSE BinarySearchLoop(lineStartIndicesArg, target, mid + 1, high)
    ELSE low

\* A binary search that returns the line after the one found.
findLineNumberBinarySearchOffByOne(lineStartIndicesArg, target) ==
    BinarySearchLoop(lineStartIndicesArg, target, 0, Len(lineStartIndicesArg)) + 1

findLineNumberBinarySearch(lineStartIndicesArg, target) ==
    BinarySearchLoop(lineStartIndicesArg, target, 0, Len(lineStartIndicesArg))

LocResult(l, c) ==
    [fn |-> "getLocFromIndex", index |-> 0, loc |-> [line |-> l, column |-> c],
     err |-> "none"]

\* getLocFromIndex for a numeric index; the index field is filled in by the caller.
getLocFromIndex(index) ==
    IF index < 0 \/ index > Len(text)
    THEN [fn |-> "getLocFromIndex", index |-> 0, loc |-> NoLoc, err |-> "RangeError"]
    ELSE IF index = Len(text)
    THEN LocResult(Len(lines), Len(Last(lines)))
    ELSE LET lineNumber ==
                 IF index >= Last(lineStartIndices)
                 THEN Len(lineStartIndices)
                 ELSE findLineNumberBinarySearch(lineStartIndices, index)
         IN  LocResult(lineNumber, index - lineStartIndices[lineNumber])

IndexError(loc) ==
    [fn |-> "getIndexFromLoc", index |-> 0, loc |-> loc, err |-> "RangeError"]

\* getIndexFromLoc that rejects the position at the end of the last line.
getIndexFromLocStrictEnd(loc) ==
    IF loc.line <= 0 \/ loc.line > Len(lineStartIndices) \/ loc.column < 0
    THEN IndexError(loc)
    ELSE LET lineStartIndex == lineStartIndices[loc.line]
             lineEndIndex ==
                 IF loc.line = Len(lineStartIndices)
                 THEN Len(text)
                 ELSE lineStartIndices[loc.line + 1]
             positionIndex == lineStartIndex + loc.column
         IN  IF positionIndex >= lineEndIndex
             THEN IndexError(loc)
             ELSE [fn |-> "getIndexFromLoc", index |-> positionIndex, loc |-> loc,
                   err |-> "none"]

\* getIndexFromLoc that accepts, on a line that is not the last, the column of
\* the next line's start.
getIndexFromLocLooseLine(loc) ==
    IF loc.line <= 0 \/ loc.line > Len(lineStartIndices) \/ loc.column < 0
    THEN IndexError(loc)
    ELSE LET lineStartIndex == lineStartIndices[loc.line]
             lineEndIndex ==
                 IF loc.line = Len(lineStartIndices)
                 THEN Len(text)
                 ELSE lineStartIndices[loc.line + 1]
             positionIndex == lineStartIndex + loc.column
         IN  IF positionIndex > lineEndIndex
             THEN IndexError(loc)
             ELSE [fn |-> "getIndexFromLoc", index |-> positionIndex, loc |-> loc,
                   err |-> "none"]

\* getIndexFromLoc for a loc with numeric line and column.
getIndexFromLoc(loc) ==
    IF loc.line <= 0
    THEN IndexError(loc)
    ELSE IF loc.line > Len(lineStartIndices)
    THEN IndexError(loc)
    ELSE IF loc.column < 0
    THEN IndexError(loc)
    ELSE LET lineStartIndex == lineStartIndices[loc.line]
             lineEndIndex ==
                 IF loc.line = Len(lineStartIndices)
                 THEN Len(text)
                 ELSE lineStartIndices[loc.line + 1]
             positionIndex == lineStartIndex + loc.column
         IN  IF \/ (loc.line = Len(lineStartIndices) /\ positionIndex > lineEndIndex)
                \/ (loc.line < Len(lineStartIndices) /\ positionIndex >= lineEndIndex)
             THEN IndexError(loc)
             ELSE [fn |-> "getIndexFromLoc", index |-> positionIndex, loc |-> loc,
                   err |-> "none"]

\* The offsets and locations the queries are called with: every valid one and
\* the first invalid ones on each side.
QueryIndices == (-1)..(MaxTextLen + 2)

QueryLocs == [line : (-1)..(MaxTextLen + 3), column : (-1)..(MaxTextLen + 2)]

CallGetLocFromIndex ==
    /\ posPc = "ready"
    /\ posCall = NoCall
    /\ \E index \in QueryIndices :
           posCall' = [getLocFromIndex(index) EXCEPT !.index = index]
    /\ UNCHANGED <<text, lines, lineStartIndices, lastIndex, posPc, notPos>>

CallGetIndexFromLoc ==
    /\ posPc = "ready"
    /\ posCall = NoCall
    /\ \E loc \in QueryLocs : posCall' = getIndexFromLoc(loc)
    /\ UNCHANGED <<text, lines, lineStartIndices, lastIndex, posPc, notPos>>

\* The caller takes the value returned (or the error thrown) and goes on.
PosReturn ==
    /\ posCall # NoCall
    /\ posCall' = NoCall
    /\ UNCHANGED <<text, lines, lineStartIndices, lastIndex, posPc, notPos>>

(***************************************************************************)
(* Position index: properties                                              *)
(***************************************************************************)
ValidIndices == 0..Len(text)

\* The offsets of text at which a line terminator ends: a line break character
\* that is not the CR of a CR LF pair.
TerminatorEnds ==
    {i \in 0..(Len(text) - 1) :
        /\ text[i + 1] \in LineBreakChars
        /\ ~(text[i + 1] = "CR" /\ i + 2 <= Len(text) /\ text[i + 2] = "LF")}

\* C5: for every offset o with 0 <= o <= len(text), getLocFromIndex(o) does not
\* raise and getIndexFromLoc of the location it returns does not raise and
\* returns o, offsets at line-break characters and the end-of-file offset included.
C5_RoundTrip ==
    posPc = "ready" =>
        \A o \in ValidIndices :
            /\ getLocFromIndex(o).err = "none"
            /\ getIndexFromLoc(getLocFromIndex(o).loc).err = "none"
            /\ getIndexFromLoc(getLocFromIndex(o).loc).index = o

\* A call of getIndexFromLoc on the location of the LF of a CR LF pair, which
\* getLocFromIndex returned for offset o, gave o back.
C5_Witness ==
    /\ posPc = "ready"
    /\ posCall.fn = "getIndexFromLoc"
    /\ posCall.err = "none"
    /\ \E o \in 1..(Len(text) - 1) :
           /\ text[o] = "CR"
           /\ text[o + 1] = "LF"
           /\ posCall.loc = getLocFromIndex(o).loc
           /\ posCall.index = o

\* The 1-based line of offset o by a linear scan: the number of line starts <= o.
LinearLine(o) ==
    Cardinality({k \in 1..Len(lineStartIndices) : lineStartIndices[k] <= o})

\* C6: for 0 <= o <= len(text), getLocFromIndex(o) returns the line a linear
\* scan finds (the number of line starts <= o) and column o minus that line's
\* start; at o = len(text) that is the last line and the last line's length;
\* for o < 0 or o > len(text) it fails with a range error.
C6_LocFromIndex ==
    posPc = "ready" =>
        \A o \in QueryIndices :
            LET r == getLocFromIndex(o)
            IN  IF o < 0 \/ o > Len(text)
                THEN r.err = "RangeError"
                ELSE /\ r.err = "none"
                     /\ r.loc.line = LinearLine(o)
                     /\ r.loc.column = o - lineStartIndices[LinearLine(o)]
                     /\ o = Len(text) =>
                            /\ r.loc.line = Len(lines)
                            /\ r.loc.column = Len(Last(lines))

\* getLocFromIndex was called on an offset that the binary search places on a
\* line that is neither the first nor the last.
C6_Witness ==
    /\ posPc = "ready"
    /\ posCall.fn = "getLocFromIndex"
    /\ posCall.err = "none"
    /\ posCall.index < Last(lineStartIndices)
    /\ posCall.loc.line >= 2
    /\ posCall.loc.line = LinearLine(posCall.index)

\* When getIndexFromLoc must fail, in the claim's words.
LocOutOfRange(loc) ==
    \/ loc.line <= 0
    \/ loc.line > Len(lineStartIndices)
    \/ loc.column < 0
    \/ /\ loc.line \in 1..(Len(lineStartIndices) - 1)
       /\ lineStartIndices[loc.line] + loc.column >= lineStartIndices[loc.line + 1]
    \/ /\ loc.line = Len(lineStartIndices)
       /\ lineStartIndices[loc.line] + loc.column > Len(text)

\* C7: getIndexFromLoc fails with a range error exactly when line <= 0, line
\* exceeds the number of lines, column < 0, or start(line) + column is at or
\* past the next line's start (a line that is not the last) or past the text
\* length (the last line); otherwise it returns start(line) + column, and the
\* end-of-file position on the last line returns len(text).
C7_IndexFromLoc ==
    posPc = "ready" =>
        /\ \A loc \in QueryLocs :
               LET r == getIndexFromLoc(loc)
               IN  /\ (r.err = "RangeError") <=> LocOutOfRange(loc)
                   /\ r.err \in {"none", "RangeError"}
                   /\ ~LocOutOfRange(loc) =>
                          r.index = lineStartIndices[loc.line] + loc.column
        /\ LET eof == [line   |-> Len(lineStartIndices),
                       column |-> Len(text) - Last(lineStartIndices)]
           IN  /\ getIndexFromLoc(eof).err = "none"
               /\ getIndexFromLoc(eof).index = Len(text)

\* getIndexFromLoc was called for the end-of-file position of a text that ends
\* with a line break (the last line is empty) and returned the text's length.
C7_Witness ==
    /\ posPc = "ready"
    /\ Len(text) > 0
    /\ Last(text) \in LineBreakChars
    /\ posCall.fn = "getIndexFromLoc"
    /\ posCall.loc = [line |-> Len(lineStartIndices), column |-> 0]
    /\ posCall.err = "none"
    /\ posCall.index = Len(text)

\* C8: after construction the line-start table begins with 0, is strictly
\* increasing, has one entry per line (one more than the number of line
\* terminators of the text), is as long as lines, and each entry after the
\* first is the offset just past a line terminator.
C8_LineStartTable ==
    posPc = "ready" =>
        /\ lineStartIndices[1] = 0
        /\ \A k \in 1..(Len(lineStartIndices) - 1) :
               lineStartIndices[k] < lineStartIndices[k + 1]
        /\ Len(lineStartIndices) = Cardinality(TerminatorEnds) + 1
        /\ Len(lines) = Len(lineStartIndices)
        /\ \A k \in 2..Len(lineStartIndices) :
               (lineStartIndices[k] - 1) \in TerminatorEnds

\* Construction finished on a text that holds a CR LF pair and another line break.
C8_Witness ==
    /\ posPc = "ready"
    /\ Len(lineStartIndices) >= 3
    /\ \E i \in 1..(Len(text) - 1) : text[i] = "CR" /\ text[i + 1] = "LF"

(***************************************************************************)
(* Token/comment store                                                     *)
(***************************************************************************)
\* An entry is a token, a comment or a node: its kind, its type, whether its
\* value holds a whitespace character (JSXText) and its range <<start, end>>.
Flavours ==
    {[kind |-> "Token",   type |-> "Punctuator", space |-> FALSE],
     [kind |-> "Token",   type |-> "JSXText",    space |-> TRUE],
     [kind |-> "Token",   type |-> "JSXText",    space |-> FALSE],
     [kind |-> "Comment", type |-> "Block",      space |-> FALSE]}

\* A layout places entries one after the other, each one character wide and
\* either adjacent to the one before or one character (a space) after it.
Layouts ==
    UNION {[1..n -> [gap : {0, 1}, flavour : Flavours]] : n \in 0..MaxEntries}

RECURSIVE Place(_, _, _)
Place(layout, k, offset) ==
    IF k > Len(layout)
    THEN <<>>
    ELSE LET start == offset + layout[k].gap
             entry == [kind  |-> layout[k].flavour.kind,
                       type  |-> layout[k].flavour.type,
                       space |-> layout[k].flavour.space,
                       range |-> <<start, start + 1>>]
         IN  <<entry>> \o Place(layout, k + 1, start + 1)

IsToken(e) == e.kind = "Token"

IsComment(e) == e.kind = "Comment"

NullToken == [kind |-> "Null", type |-> "Null", space |-> FALSE, range |-> <<0, 0>>]

NoSbCall ==
    [fn |-> "none", first |-> NullToken, second |-> NullToken, result |-> "none"]

InitTokFor(layout) ==
    /\ tokens = SelectSeq(Place(layout, 1, 0), IsToken)
    /\ comments = SelectSeq(Place(layout, 1, 0), IsComment)
    /\ tokensAndComments = <<>>
    /\ tokenIndex = 0
    /\ commentIndex = 0
    /\ tokPc = "merge"
    /\ sbCall = NoSbCall

\* One iteration of sortedMerge's loop with the comparison of the starts reversed.
MergeStepReversed ==
    /\ tokPc = "merge"
    /\ tokenIndex < Len(tokens) \/ commentIndex < Len(comments)
    /\ IF \/ commentIndex >= Len(comments)
          \/ /\ tokenIndex < Len(tokens)
             /\ tokens[tokenIndex + 1].range[1] > comments[commentIndex + 1].range[1]
       THEN /\ tokensAndComments' = Append(tokensAndComments, tokens[tokenIndex + 1])
            /\ tokenIndex' = tokenIndex + 1
            /\ UNCHANGED commentIndex
       ELSE /\ tokensAndComments' = Append(tokensAndComments, comments[commentIndex + 1])
            /\ commentIndex' = commentIndex + 1
            /\ UNCHANGED tokenIndex
    /\ UNCHANGED <<tokens, comments, tokPc, sbCall, notTok>>

\* One iteration of sortedMerge's while loop.
MergeStep ==
    /\ tokPc = "merge"
    /\ tokenIndex < Len(tokens) \/ commentIndex < Len(comments)
    /\ IF \/ commentIndex >= Len(comments)
          \/ /\ tokenIndex < Len(tokens)
             /\ tokens[tokenIndex + 1].range[1] < comments[commentIndex + 1].range[1]
       THEN /\ tokensAndComments' = Append(tokensAndComments, tokens[tokenIndex + 1])
            /\ tokenIndex' = tokenIndex + 1
            /\ UNCHANGED commentIndex
       ELSE /\ tokensAndComments' = Append(tokensAndComments, comments[commentIndex + 1])
            /\ commentIndex' = commentIndex + 1
            /\ UNCHANGED tokenIndex
    /\ UNCHANGED <<tokens, comments, tokPc, sbCall, notTok>>

\* sortedMerge returns; the constructor stores the result.
MergeEnd ==
    /\ tokPc = "merge"
    /\ ~(tokenIndex < Len(tokens) \/ commentIndex < Len(comments))
    /\ tokPc' = "ready"
    /\ UNCHANGED <<tokens, comments, tokensAndComments, tokenIndex, commentIndex,
                   sbCall, notTok>>

SeqToSet(s) == {s[i] : i \in 1..Len(s)}

\* The entry of S that starts first, or null when S is empty.
FirstOf(S) ==
    IF S = {} THEN NullToken
    ELSE CHOOSE e \in S : \A f \in S : e.range[1] <= f.range[1]

LastOf(S) ==
    IF S = {} THEN NullToken
    ELSE CHOOSE e \in S : \A f \in S : e.range[1] >= f.range[1]

TokensInside(nodeOrToken) ==
    {t \in SeqToSet(tokens) :
        nodeOrToken.range[1] <= t.range[1] /\ t.range[2] <= nodeOrToken.range[2]}

\* TokenStore.getFirstToken / getLastToken: the first / last token inside the
\* range of a node or token, or null.
getFirstToken(nodeOrToken) == FirstOf(TokensInside(nodeOrToken))

getLastToken(nodeOrToken) == LastOf(TokensInside(nodeOrToken))

\* TokenStore.getTokenAfter(nodeOrToken, { includeComments: true }): the first
\* token or comment that starts at or after the end of nodeOrToken, or null.
getTokenAfter(nodeOrToken) ==
    FirstOf({e \in SeqToSet(tokens) \cup SeqToSet(comments) :
                e.range[1] >= nodeOrToken.range[2]})

nodesOrTokensOverlap(first, second) ==
    \/ (first.range[1] <= second.range[1] /\ first.range[2] >= second.range[1])
    \/ (second.range[1] <= first.range[1] /\ second.range[2] >= first.range[1])

\* The while loop of isSpaceBetween. Reading nextToken.range when getTokenAfter
\* returned null throws a TypeError.
RECURSIVE SpaceWalk(_, _, _)
SpaceWalk(currentToken, finalToken, checkInsideOfJSXText) ==
    IF currentToken = finalToken
    THEN "false"
    ELSE LET nextToken == getTokenAfter(currentToken)
         IN  IF nextToken = NullToken
             THEN "TypeError"
             ELSE IF \/ currentToken.range[2] # nextToken.range[1]
                     \/ /\ checkInsideOfJSXText
                        /\ nextToken # finalToken
                        /\ nextToken.type = "JSXText"
                        /\ nextToken.space
             THEN "true"
             ELSE SpaceWalk(nextToken, finalToken, checkInsideOfJSXText)

OrElse(token, fallback) == IF token = NullToken THEN fallback ELSE token

\* isSpaceBetween walking from first to second in the order given.
isSpaceBetweenInGivenOrder(first, second, checkInsideOfJSXText) ==
    IF nodesOrTokensOverlap(first, second)
    THEN "false"
    ELSE SpaceWalk(OrElse(getLastToken(first), first),
                   OrElse(getFirstToken(second), second),
                   checkInsideOfJSXText)

isSpaceBetween(first, second, checkInsideOfJSXText) ==
    IF nodesOrTokensOverlap(first, second)
    THEN "false"
    ELSE LET startingNodeOrToken ==
                 IF first.range[2] <= second.range[1] THEN first ELSE second
             endingNodeOrToken ==
                 IF first.range[2] <= second.range[1] THEN second ELSE first
             firstToken ==
                 OrElse(getLastToken(startingNodeOrToken), startingNodeOrToken)
             finalToken ==
                 OrElse(getFirstToken(endingNodeOrToken), endingNodeOrToken)
         IN  SpaceWalk(firstToken, finalToken, checkInsideOfJSXText)

\* The nodes of the tree over the entries: a node spans a run of consecutive
\* tokens and comments, from the start of one to the end of another.
AllEntries == SeqToSet(tokens) \cup SeqToSet(comments)

Nodes ==
    {[kind |-> "Node", type |-> "Node", space |-> FALSE,
      range |-> <<a.range[1], b.range[2]>>] :
        <<a, b>> \in {p \in AllEntries \X AllEntries : p[1].range[1] <= p[2].range[1]}}

NodesOrTokens == AllEntries \cup Nodes

\* SourceCode.isSpaceBetween(first, second)
CallIsSpaceBetween ==
    /\ tokPc = "ready"
    /\ sbCall = NoSbCall
    /\ \E first \in NodesOrTokens, second \in NodesOrTokens :
           sbCall' = [fn |-> "isSpaceBetween", first |-> first, second |-> second,
                      result |-> isSpaceBetween(first, second, FALSE)]
    /\ UNCHANGED <<tokens, comments, tokensAndComments, tokenIndex, commentIndex,
                   tokPc, notTok>>

\* SourceCode.isSpaceBetweenTokens(first, second)
CallIsSpaceBetweenTokens ==
    /\ tokPc = "ready"
    /\ sbCall = NoSbCall
    /\ \E first \in NodesOrTokens, second \in NodesOrTokens :
           sbCall' = [fn |-> "isSpaceBetweenTokens", first |-> first,
                      second |-> second,
                      result |-> isSpaceBetween(first, second, TRUE)]
    /\ UNCHANGED <<tokens, comments, tokensAndComments, tokenIndex, commentIndex,
                   tokPc, notTok>>

\* The caller takes the value returned (or the error thrown) and goes on.
SbReturn ==
    /\ sbCall # NoSbCall
    /\ sbCall' = NoSbCall
    /\ UNCHANGED <<tokens, comments, tokensAndComments, tokenIndex, commentIndex,
                   tokPc, notTok>>

(***************************************************************************)
(* Token/comment store: properties                                         *)
(***************************************************************************)
\* C9: for token and comment lists that are each sorted by start offset and do
\* not overlap each other, sortedMerge returns a list strictly increasing by
\* start offset, of length tokens.length + comments.length, in which the tokens
\* and the comments each keep their relative order.
C9_SortedMerge ==
    tokPc = "ready" =>
        /\ \A k \in 1..(Len(tokensAndComments) - 1) :
               tokensAndComments[k].range[1] < tokensAndComments[k + 1].range[1]
        /\ Len(tokensAndComments) = Len(tokens) + Len(comments)
        /\ SelectSeq(tokensAndComments, IsToken) = tokens
        /\ SelectSeq(tokensAndComments, IsComment) = comments

\* The merge finished on a comment that lies between two tokens.
C9_Witness ==
    /\ tokPc = "ready"
    /\ Len(tokensAndComments) = 3
    /\ IsToken(tokensAndComments[1])
    /\ IsComment(tokensAndComments[2])
    /\ IsToken(tokensAndComments[3])

\* The two ranges have a point in common, an end point included.
OverlapOrTouch(a, b) == ~(a.range[2] < b.range[1] \/ b.range[2] < a.range[1])

RECURSIVE TotalLength(_)
TotalLength(S) ==
    IF S = {} THEN 0
    ELSE LET e == CHOOSE x \in S : TRUE
         IN  (e.range[2] - e.range[1]) + TotalLength(S \ {e})

\* Some two consecutive entries on the way from the entry from to the entry to
\* are not contiguous: the timeline's entries between them do not fill the
\* distance from the end of from to the start of to.
GapOnTheWay(from, to) ==
    LET between == {e \in SeqToSet(tokensAndComments) :
                       from.range[2] <= e.range[1] /\ e.range[2] <= to.range[1]}
    IN  TotalLength(between) # to.range[1] - from.range[2]

SpaceExpected(a, b) ==
    IF OverlapOrTouch(a, b)
    THEN "false"
    ELSE LET earlier == IF a.range[2] <= b.range[1] THEN a ELSE b
             later   == IF a.range[2] <= b.range[1] THEN b ELSE a
             from    == OrElse(LastOf(TokensInside(earlier)), earlier)
             to      == OrElse(FirstOf(TokensInside(later)), later)
         IN  IF GapOnTheWay(from, to) THEN "true" ELSE "false"

\* C10: isSpaceBetween(a, b) returns false when the ranges overlap or touch;
\* otherwise it returns true if and only if two consecutive entries of the
\* merged timeline, from the last token of the earlier entry to the first token
\* of the later one, are not contiguous; the walk reaches the final token and
\* ends (it returns true or false, it does not run off the timeline).
C10_IsSpaceBetween ==
    sbCall.fn = "isSpaceBetween" =>
        /\ sbCall.result \in {"true", "false"}
        /\ sbCall.result = SpaceExpected(sbCall.first, sbCall.second)

\* The later entry is a token or a comment, or a node that holds a token.
FinalTokenOnTimeline(a, b) ==
    LET later == IF a.range[2] <= b.range[1] THEN b ELSE a
    IN  later \in AllEntries \/ TokensInside(later) # {}

\* The statement of C10 for the calls whose later entry is on the timeline.
C10_WhenFinalTokenOnTimeline ==
    (sbCall.fn = "isSpaceBetween"
        /\ FinalTokenOnTimeline(sbCall.first, sbCall.second)) =>
        /\ sbCall.result \in {"true", "false"}
        /\ sbCall.result = SpaceExpected(sbCall.first, sbCall.second)

\* C11: for two entries whose ranges do not overlap, isSpaceBetween (and the
\* legacy isSpaceBetweenTokens) gives the same answer for (a, b) and (b, a).
C11_Symmetric ==
    (sbCall # NoSbCall /\ ~OverlapOrTouch(sbCall.first, sbCall.second)) =>
        sbCall.result =
            isSpaceBetween(sbCall.second, sbCall.first,
                           sbCall.fn = "isSpaceBetweenTokens")

\* A call that names the later entry first and finds a space.
C11_Witness ==
    /\ sbCall.fn = "isSpaceBetweenTokens"
    /\ sbCall.second.range[2] < sbCall.first.range[1]
    /\ sbCall.result = "true"

\* Some JSXText entry whose value holds a whitespace character lies strictly
\* between the start token (the last token of the earlier entry) and the final
\* token (the first token of the later entry).
JSXTextSpaceBetween(a, b) ==
    LET earlier == IF a.range[2] <= b.range[1] THEN a ELSE b
        later   == IF a.range[2] <= b.range[1] THEN b ELSE a
        from    == OrElse(LastOf(TokensInside(earlier)), earlier)
        to      == OrElse(FirstOf(TokensInside(later)), later)
    IN  \E e \in SeqToSet(tokensAndComments) :
            /\ from.range[2] <= e.range[1]
            /\ e.range[2] <= to.range[1]
            /\ e.type = "JSXText"
            /\ e.space

\* C31: isSpaceBetweenTokens(a, b) returns true exactly when
\* isSpaceBetween(a, b) returns true or a JSXText entry strictly between the
\* start token and the final token holds a whitespace character; so it is
\* true whenever isSpaceBetween(a, b) is, and it is false when the ranges
\* overlap.
C31_LegacyVariant ==
    sbCall.fn = "isSpaceBetweenTokens" =>
        LET plain == isSpaceBetween(sbCall.first, sbCall.second, FALSE)
        IN  /\ sbCall.result = "true"
                   <=> \/ plain = "true"
                       \/ /\ ~OverlapOrTouch(sbCall.first, sbCall.second)
                          /\ JSXTextSpaceBetween(sbCall.first, sbCall.second)
            /\ plain = "true" => sbCall.result = "true"
            /\ OverlapOrTouch(sbCall.first, sbCall.second)
                   => (sbCall.result = "false" /\ plain = "false")

\* The statement of C31 for the calls whose later entry is on the timeline.
C31_WhenFinalTokenOnTimeline ==
    (sbCall.fn = "isSpaceBetweenTokens"
        /\ FinalTokenOnTimeline(sbCall.first, sbCall.second))
        => C31_LegacyVariant

\* The legacy variant finds a space in a JSXText between two entries that
\* the plain variant finds contiguous.
C31_Witness ==
    /\ sbCall.fn = "isSpaceBetweenTokens"
    /\ FinalTokenOnTimeline(sbCall.first, sbCall.second)
    /\ sbCall.result = "true"
    /\ isSpaceBetween(sbCall.first, sbCall.second, FALSE) = "false"

(***************************************************************************)
(* Traversal                                                               *)
(***************************************************************************)
\* The value of a parent property: a node, null (the root's parent) or
\* undefined (never assigned).
Null == 0

Undefined == -1

\* The parent vectors of the ordered trees with n nodes numbered in source
\* (depth-first, left-to-right) order: node 1 is the root, and the parent of
\* node i + 1 is node i or one of its ancestors.
RECURSIVE AncestorsOrSelf(_, _)
AncestorsOrSelf(p, i) ==
    IF i = 0 THEN {} ELSE {i} \cup AncestorsOrSelf(p, p[i])

ParentVectors(n) ==
    {p \in [1..n -> 0..(n - 1)] :
        /\ n >= 1 => p[1] = 0
        /\ \A i \in 2..n : p[i] \in AncestorsOrSelf(p, i - 1)}

\* A tree whose root is a Program node is an ESTree; any other root is the
\* tree of a custom parser.
Trees ==
    UNION {[parent : ParentVectors(n), rootType : {"Program", "Document"}] :
              n \in 1..MaxNodes}

NodesOf(tree) == 1..Len(tree.parent)

\* this.isESTree
isESTree == ast.rootType = "Program"

NoSteps == <<>>

\* No list returned; a list returned is kept with whether it came from the
\* cache.
NoReturn == [set |-> FALSE, steps |-> NoSteps, cached |-> FALSE]

InitTravFor(tree) ==
    /\ ast = tree
    /\ parentField = [n \in NodesOf(tree) |-> Undefined]
    /\ stepsDefined = FALSE
    /\ steps = NoSteps
    /\ walk = <<>>
    /\ entered = 0
    /\ emitted = 0
    /\ travPc = "idle"
    /\ travRet = NoReturn
    /\ walks = 0

\* new VisitNodeStep({ target: node, phase, args: [node, node.parent] })
VisitNodeStep(node, phase, parentArg) ==
    [kind |-> "visit", target |-> node, phase |-> phase, parent |-> parentArg]

\* new CallMethodStep({ target: eventName, args })
CallMethodStep == [kind |-> "call", target |-> 0, phase |-> 0, parent |-> Null]

\* analyzer.leaveNode recording the enter phase.
leaveNodeAsEnter(node, parents) == VisitNodeStep(node, 1, parents[node])

\* analyzer.enterNode(node) and analyzer.leaveNode(node): the step pushed.
enterNode(node, parents) == VisitNodeStep(node, 1, parents[node])

leaveNode(node, parents) == VisitNodeStep(node, 2, parents[node])

Emits(n) == [i \in 1..n |-> CallMethodStep]

\* The numbers of events the code path analyzer emits before and after it
\* hands a node to the wrapped analyzer; none when the tree is not an ESTree.
EmitCounts ==
    IF isESTree
    THEN {c \in (0..MaxEmits) \X (0..MaxEmits) : emitted + c[1] + c[2] <= MaxEmits}
    ELSE {<<0, 0>>}

\* traverse() is called when the steps are cached: they are returned.
TraverseCached ==
    /\ travPc = "idle"
    /\ stepsDefined
    /\ ~travRet.set
    /\ travRet' = [set |-> TRUE, steps |-> steps, cached |-> TRUE]
    /\ UNCHANGED <<ast, parentField, stepsDefined, steps, walk, entered, emitted,
                   travPc, walks, notTrav>>

\* traverse() walking the tree whether or not the steps are cached.
TraverseStartUncached ==
    /\ travPc = "idle"
    /\ ~travRet.set
    /\ qryCall.fn = "none"
    /\ stepsDefined' = TRUE
    /\ steps' = <<>>
    /\ walk' = <<>>
    /\ entered' = 0
    /\ emitted' = 0
    /\ travPc' = "walking"
    /\ walks' = walks + 1
    /\ UNCHANGED <<ast, parentField, travRet, notTrav>>

\* traverse() is called for the first time: this.#steps = [] and the walk begins.
TraverseStart ==
    /\ travPc = "idle"
    /\ ~stepsDefined
    /\ qryCall.fn = "none"
    /\ stepsDefined' = TRUE
    /\ steps' = <<>>
    /\ travPc' = "walking"
    /\ walks' = walks + 1
    /\ UNCHANGED <<ast, parentField, walk, entered, emitted, travRet, notTrav>>

\* The node the Traverser enters next: the root, or the next child of the
\* node it is in; 0 when that node has no further child.
NextToEnter ==
    IF entered = 0 THEN 1
    ELSE IF /\ entered < Len(ast.parent)
            /\ walk # <<>>
            /\ ast.parent[entered + 1] = Last(walk)
    THEN entered + 1
    ELSE 0

\* The Traverser enters a node: the enter callback assigns node.parent and
\* calls analyzer.enterNode(node).
TraverserEnter ==
    /\ travPc = "walking"
    /\ NextToEnter # 0
    /\ LET node == NextToEnter
           parent == IF walk = <<>> THEN Null ELSE Last(walk)
       IN  /\ parentField' = [parentField EXCEPT ![node] = parent]
           /\ \E c \in EmitCounts :
                  /\ steps' = steps \o Emits(c[1])
                                    \o <<enterNode(node, parentField')>>
                                    \o Emits(c[2])
                  /\ emitted' = emitted + c[1] + c[2]
           /\ walk' = Append(walk, node)
           /\ entered' = node
    /\ UNCHANGED <<ast, stepsDefined, travPc, travRet, walks, notTrav>>

\* The Traverser leaves the node it is in, all its children visited: the
\* leave callback calls analyzer.leaveNode(node).
TraverserLeave ==
    /\ travPc = "walking"
    /\ NextToEnter = 0
    /\ walk # <<>>
    /\ LET node == Last(walk)
       IN  \E c \in EmitCounts :
               /\ steps' = steps \o Emits(c[1])
                                 \o <<leaveNode(node, parentField)>>
                                 \o Emits(c[2])
               /\ emitted' = emitted + c[1] + c[2]
    /\ walk' = SubSeq(walk, 1, Len(walk) - 1)
    /\ UNCHANGED <<ast, parentField, stepsDefined, entered, travPc, travRet, walks,
                   notTrav>>

\* A callback of the walk (or the code path analyzer under it) throws: the
\* exception leaves traverse(), which returns nothing; this.#steps keeps the
\* steps pushed so far.
TraverseThrows ==
    /\ travPc = "walking"
    /\ travPc' = "idle"
    /\ UNCHANGED <<ast, parentField, stepsDefined, steps, walk, entered, emitted,
                   travRet, walks, notTrav>>

\* Traverser.traverse returns; traverse() returns the steps.
TraverseReturn ==
    /\ travPc = "walking"
    /\ NextToEnter = 0
    /\ walk = <<>>
    /\ travPc' = "idle"
    /\ travRet' = [set |-> TRUE, steps |-> steps, cached |-> FALSE]
    /\ UNCHANGED <<ast, parentField, stepsDefined, steps, walk, entered, emitted,
                   walks, notTrav>>

\* The caller takes the list returned and goes on.
TravReturnTaken ==
    /\ travRet.set
    /\ travRet' = NoReturn
    /\ UNCHANGED <<ast, parentField, stepsDefined, steps, walk, entered, emitted,
                   travPc, walks, notTrav>>

(***************************************************************************)
(* Traversal: properties                                                   *)
(***************************************************************************)
IsVisit(step) == step.kind = "visit"

Children(tree, n) == {c \in NodesOf(tree) : tree.parent[c] = n}

\* The depth-first walk of the subtree at node n: its enter step, the walks of
\* its children in source order, its leave step, each step with n's parent.
RECURSIVE DepthFirst(_, _)
RECURSIVE DepthFirstAll(_, _)
DepthFirst(tree, n) ==
    <<VisitNodeStep(n, 1, tree.parent[n])>>
        \o DepthFirstAll(tree, Children(tree, n))
        \o <<VisitNodeStep(n, 2, tree.parent[n])>>

DepthFirstAll(tree, S) ==
    IF S = {} THEN <<>>
    ELSE DepthFirst(tree, Min(S)) \o DepthFirstAll(tree, S \ {Min(S)})

\* The positions in list of the visit steps of node n with the given phase.
StepPositions(list, n, phase) ==
    {k \in 1..Len(list) : list[k].target = n /\ list[k].phase = phase}

C34_CompleteSteps ==
    travRet.set =>
        LET visits == SelectSeq(travRet.steps, IsVisit)
        IN  /\ \A n \in NodesOf(ast) :
                   \A i \in StepPositions(visits, n, 1) :
                       \E j \in StepPositions(visits, n, 2) : i < j
            /\ visits = DepthFirst(ast, 1)

\* The same for the lists that do not come from the cache.
C34_WhenNotCached ==
    ~travRet.cached => C34_CompleteSteps

\* traverse() has returned from the cache a list that holds an enter step
\* without its leave step.
C34_PartialReturned ==
    /\ travRet.set
    /\ travRet.cached
    /\ \E n \in NodesOf(ast) :
           /\ StepPositions(travRet.steps, n, 1) # {}
           /\ StepPositions(travRet.steps, n, 2) = {}

(***************************************************************************)
(* The trees the rule is run on                                            *)
(*                                                                         *)
(* A node is a record of the properties the rule reads (type, static,      *)
(* kind, computed, override, accessibility, implements, and the type and   *)
(* name of its key), the field of its parent it sits in, and, for a class  *)
(* or a member, the number of its children already left (done). A body     *)
(* holds any number of children, so it keeps no count. Three more fields   *)
(* are bookkeeping for the properties, not read by the rule: used (a       *)
(* `this` or `super` lies directly in this usage scope), valueUsed (the    *)
(* used flag of a member's value function, once left) and nReports (the    *)
(* problems reported for a function whose parent is this node).            *)
(***************************************************************************)
Node(type, field) ==
    [type |-> type, field |-> field, static |-> FALSE, kind |-> "none",
     computed |-> FALSE, keyType |-> "none", keyName |-> "none",
     override |-> FALSE, accessibility |-> "none", implements |-> FALSE,
     done |-> 0, used |-> FALSE, valueUsed |-> FALSE, nReports |-> 0]

NoNode == Node("none", "none")

FunctionTypes == {"FunctionDeclaration", "FunctionExpression"}

FieldTypes == {"PropertyDefinition", "AccessorProperty"}

ClassTypes == {"ClassDeclaration", "ClassExpression"}

LeafTypes == {"ThisExpression", "Super", "Identifier", "PrivateIdentifier", "Literal"}

\* The nodes with a fixed list of children: a class has its body, a member
\* its key and its value.
FixedTypes == ClassTypes \cup FieldTypes \cup {"MethodDefinition"}

BodyTypes == FunctionTypes \cup {"ArrowFunctionExpression", "StaticBlock"}

KeyNames == {"foo"}

\* The key of a member: an identifier or a private identifier when the member
\* is not computed; any expression (here a literal or a function expression)
\* when it is.
KeyShapes ==
    [computed : {FALSE}, keyType : {"Identifier", "PrivateIdentifier"},
     keyName : KeyNames]
    \cup [computed : {TRUE}, keyType : {"Literal", "FunctionExpression"},
          keyName : {"none"}]

WithKey(node, k) ==
    [node EXCEPT !.computed = k.computed, !.keyType = k.keyType, !.keyName = k.keyName]

Methods ==
    {[WithKey(Node("MethodDefinition", "body"), k)
         EXCEPT !.static = st, !.kind = kd] :
        k \in KeyShapes, st \in BOOLEAN, kd \in {"method"}}
    \cup {[Node("MethodDefinition", "body")
              EXCEPT !.kind = "constructor", !.keyType = "Identifier",
                     !.keyName = "constructor"]}

Fields ==
    {[WithKey(Node(t, "body"), k) EXCEPT !.static = st] :
        t \in FieldTypes, k \in KeyShapes, st \in BOOLEAN}

Members == Methods \cup Fields \cup {Node("StaticBlock", "body")}

Classes(type) == {[Node(type, "body") EXCEPT !.implements = i] : i \in {FALSE}}

\* What a function body, a static block or a field value may hold.
Expressions(field) ==
    {Node(t, field) :
        t \in {"ThisExpression", "Super", "FunctionExpression",
               "ArrowFunctionExpression"}}
    \cup {[c EXCEPT !.field = field] : c \in Classes("ClassExpression")}

\* The least number of levels of nodes with children that a node needs from
\* itself down: a leaf needs none, a method its value function, a class its body.
MinHeight(node) ==
    IF node.type \in LeafTypes THEN 0
    ELSE IF node.type \in ClassTypes \/ node.type = "MethodDefinition" THEN 2
    ELSE IF node.type \in FieldTypes /\ node.keyType \notin LeafTypes THEN 2
    ELSE 1

\* The children that may come next under the last node of p.
NextChildren(p) ==
    IF p = <<>>
    THEN {Node("Program", "root")}
    ELSE LET top == Last(p)
             all ==
                 CASE top.type = "Program" ->
                          Classes("ClassDeclaration")
                              \cup {Node("FunctionDeclaration", "body")}
                   [] top.type \in ClassTypes ->
                          IF top.done = 0 THEN {Node("ClassBody", "body")} ELSE {}
                   [] top.type = "ClassBody" ->
                          Members
                   [] top.type = "MethodDefinition" ->
                          IF top.done = 0 THEN {Node(top.keyType, "key")}
                          ELSE IF top.done = 1
                          THEN {Node("FunctionExpression", "value")}
                          ELSE {}
                   [] top.type \in FieldTypes ->
                          IF top.done = 0 THEN {Node(top.keyType, "key")}
                          ELSE IF top.done = 1 THEN Expressions("value")
                          ELSE {}
                   [] top.type \in BodyTypes ->
                          Expressions("body")
                   [] OTHER -> {}
         IN  {c \in all : (Len(p) - 1) + MinHeight(c) <= MaxDepth}

\* Whether the last node of p has all the children it must have.
Complete(node) ==
    CASE node.type = "MethodDefinition" -> node.done = 2
      [] node.type \in ClassTypes -> node.done = 1
      [] node.type \in FieldTypes -> node.done >= 1
      [] OTHER -> TRUE

(***************************************************************************)
(* Classes whose members carry TypeScript attributes                       *)
(*                                                                         *)
(* One class, a declaration or an expression, that implements an interface *)
(* or not, with one member that varies in its key, `override` and its      *)
(* accessibility modifier; the value of the member is a function that      *)
(* holds `this` or nothing.                                                *)
(***************************************************************************)
ListedNames == {"foo", "#foo"}

\* `foo`, `#foo`, `'foo'` and `'#foo'` as plain keys; `[foo]` and `['foo']`
\* as computed keys.
MemberKeys ==
    [computed : {FALSE}, keyType : {"Identifier", "PrivateIdentifier"},
     keyName : KeyNames]
    \cup [computed : {FALSE}, keyType : {"Literal"}, keyName : ListedNames]
    \cup [computed : {TRUE}, keyType : {"Literal", "Identifier"},
          keyName : KeyNames]

Accessibilities == {"none", "public", "protected", "private"}

\* A private name takes no accessibility modifier.
AttributedMembers ==
    LET all ==
            {[WithKey(Node(t, "body"), k)
                 EXCEPT !.static = st, !.override = ov, !.accessibility = acc,
                        !.kind = IF t = "MethodDefinition" THEN "method"
                                 ELSE "none"] :
                t \in {"MethodDefinition", "PropertyDefinition"},
                k \in MemberKeys, st \in BOOLEAN, ov \in BOOLEAN,
                acc \in Accessibilities}
    IN  {m \in all : m.keyType = "PrivateIdentifier" => m.accessibility = "none"}

AttributedClasses ==
    {[Node(t, "body") EXCEPT !.implements = i] : t \in ClassTypes, i \in BOOLEAN}

\* The children that may come next under the last node of p, last being the
\* event before: a class body takes its member when it has just been entered.
MemberChildren(p, last) ==
    IF p = <<>>
    THEN {Node("Program", "root")}
    ELSE LET top == Last(p)
         IN  CASE top.type = "Program" -> AttributedClasses
               [] top.type \in ClassTypes ->
                      IF top.done = 0 THEN {Node("ClassBody", "body")} ELSE {}
               [] top.type = "ClassBody" ->
                      IF last.phase = 1 THEN AttributedMembers ELSE {}
               [] top.type \in {"MethodDefinition", "PropertyDefinition"} ->
                      IF top.done = 0 THEN {Node(top.keyType, "key")}
                      ELSE IF top.done = 1
                      THEN {Node("FunctionExpression", "value")}
                      ELSE {}
               [] top.type = "FunctionExpression" ->
                      {Node("ThisExpression", "body")}
               [] OTHER -> {}

(***************************************************************************)
(* The rule                                                                *)
(***************************************************************************)
DefaultOptions ==
    [enforceForClassFields |-> TRUE, exceptMethods |-> {},
     ignoreOverrideMethods |-> FALSE, ignoreClassesWithImplements |-> "none"]

\* The handlers work on the stack; they record a report and a pop of the
\* empty stack (which yields undefined).
HandlerState(st) == [stack |-> st, reported |-> FALSE, underflow |-> FALSE]

pushContext(h) == [h EXCEPT !.stack = Append(@, FALSE)]

popContext(h) ==
    IF h.stack = <<>>
    THEN [h EXCEPT !.underflow = TRUE]
    ELSE [h EXCEPT !.stack = SubSeq(@, 1, Len(@) - 1)]

enterFunction(h) == pushContext(h)

isInstanceMethod(node) ==
    CASE node.type = "MethodDefinition" ->
             ~node.static /\ node.kind # "constructor"
      [] node.type \in FieldTypes ->
             ~node.static /\ options.enforceForClassFields
      [] OTHER -> FALSE

\* hasImplements(node): classNode is node.parent.parent.
hasImplements(classNode) ==
    classNode.type = "ClassDeclaration" /\ classNode.implements

\* The name looked up in exceptMethods, without the `#` of a private name.
ExceptNameNoHash(node) ==
    IF node.keyType \in {"Literal", "Identifier", "PrivateIdentifier"}
    THEN node.keyName
    ELSE ""

\* The name looked up in exceptMethods: hashIfNeeded + name.
ExceptName(node) ==
    LET hashIfNeeded == IF node.keyType = "PrivateIdentifier" THEN "#" ELSE ""
        name == IF node.keyType \in {"Literal", "Identifier", "PrivateIdentifier"}
                THEN node.keyName
                ELSE ""
    IN  hashIfNeeded \o name

isIncludedInstanceMethod(node, classNode) ==
    IF isInstanceMethod(node)
    THEN IF node.computed
         THEN TRUE
         ELSE IF options.ignoreOverrideMethods /\ node.override
         THEN FALSE
         ELSE IF /\ options.ignoreClassesWithImplements # "none"
                 /\ hasImplements(classNode)
                 /\ \/ options.ignoreClassesWithImplements = "all"
                    \/ /\ options.ignoreClassesWithImplements = "public-fields"
                       /\ node.keyType # "PrivateIdentifier"
                       /\ node.accessibility \in {"none", "public"}
         THEN FALSE
         ELSE ExceptName(node) \notin options.exceptMethods
    ELSE FALSE

\* The node i levels above the last node of p (1: its parent), or no node.
Above(p, i) == IF Len(p) > i THEN p[Len(p) - i] ELSE NoNode

\* exitFunction(node), node being the last node of p.
exitFunction(h, p) ==
    LET methodUsesThis == IF h.stack = <<>> THEN FALSE ELSE Last(h.stack)
        popped == popContext(h)
    IN  IF isIncludedInstanceMethod(Above(p, 1), Above(p, 3)) /\ ~methodUsesThis
        THEN [popped EXCEPT !.reported = TRUE]
        ELSE popped

\* markThisUsed setting the flag of every frame.
markThisUsedEveryFrame(h) ==
    [h EXCEPT !.stack = [i \in 1..Len(h.stack) |-> TRUE]]

markThisUsed(h) ==
    IF Len(h.stack) > 0
    THEN [h EXCEPT !.stack[Len(h.stack)] = TRUE]
    ELSE h

\* `X > ArrowFunctionExpression.value` for X a class field or accessor.
IsFieldArrow(p) ==
    /\ Last(p).type = "ArrowFunctionExpression"
    /\ Last(p).field = "value"
    /\ Above(p, 1).type \in FieldTypes

\* `X > *.key` for X a class field or accessor.
IsFieldKey(p) == Last(p).field = "key" /\ Above(p, 1).type \in FieldTypes

\* The visitor table without the StaticBlock entry.
EnterHandlersNoStaticBlock(p) ==
    LET node == Last(p)
    IN  IF node.type \in FunctionTypes THEN <<"enterFunction">>
        ELSE IF node.type \in {"ThisExpression", "Super"} THEN <<"markThisUsed">>
        ELSE IF options.enforceForClassFields /\ IsFieldArrow(p)
        THEN <<"enterFunction">>
        ELSE <<>>

\* The handlers of the visitor table that match the entry of the last node of p.
EnterHandlers(p) ==
    LET node == Last(p)
    IN  IF node.type \in FunctionTypes THEN <<"enterFunction">>
        ELSE IF node.type = "StaticBlock" THEN <<"pushContext">>
        ELSE IF node.type \in {"ThisExpression", "Super"} THEN <<"markThisUsed">>
        ELSE IF options.enforceForClassFields /\ IsFieldArrow(p)
        THEN <<"enterFunction">>
        ELSE <<>>

\* The handlers that match the exit of the last node of p, the less specific
\* selector (`FunctionExpression:exit`) before the more specific (`X > *.key:exit`).
ExitHandlers(p) ==
    LET node == Last(p)
    IN  (IF node.type \in FunctionTypes THEN <<"exitFunction">> ELSE <<>>)
        \o (IF node.type \in FieldTypes \/ node.type = "StaticBlock"
            THEN <<"popContext">> ELSE <<>>)
        \o (IF options.enforceForClassFields /\ IsFieldArrow(p)
            THEN <<"exitFunction">> ELSE <<>>)
        \o (IF IsFieldKey(p) THEN <<"pushContext">> ELSE <<>>)

RECURSIVE RunHandlers(_, _, _)
RunHandlers(handlers, h, p) ==
    IF handlers = <<>>
    THEN h
    ELSE LET name == Head(handlers)
             next == CASE name = "enterFunction" -> enterFunction(h)
                       [] name = "pushContext"   -> pushContext(h)
                       [] name = "popContext"    -> popContext(h)
                       [] name = "markThisUsed"  -> markThisUsed(h)
                       [] name = "exitFunction"  -> exitFunction(h, p)
         IN  RunHandlers(Tail(handlers), next, p)

(***************************************************************************)
(* Usage scopes, by the shape of the tree                                  *)
(***************************************************************************)
\* Whether node i of p is an open usage scope: a function, a static block, a
\* class field or accessor whose key has been left, or an arrow function that
\* is a field value when class fields are enforced.
IsUsageScope(p, i) ==
    \/ p[i].type \in FunctionTypes
    \/ p[i].type = "StaticBlock"
    \/ p[i].type \in FieldTypes /\ p[i].done >= 1
    \/ /\ p[i].type = "ArrowFunctionExpression"
       /\ p[i].field = "value"
       /\ i > 1
       /\ p[i - 1].type \in FieldTypes
       /\ options.enforceForClassFields

UsageScopes(p) == {i \in 1..Len(p) : IsUsageScope(p, i)}

Max(S) == CHOOSE x \in S : \A y \in S : x >= y

\* p with the use of `this` noted in the innermost open usage scope.
NoteUse(p) ==
    IF UsageScopes(p) = {} THEN p
    ELSE [p EXCEPT ![Max(UsageScopes(p))].used = TRUE]

InitRuleFor(opts) ==
    /\ options = opts
    /\ stack = <<>>
    /\ path = <<>>
    /\ event = [phase |-> 0, node |-> NoNode]
    /\ reported = FALSE
    /\ underflow = FALSE
    /\ rulePc = "run"

\* The handlers that match the entry of child, the next node of the tree, run.
Enter(child) ==
    LET inside == Append(path, child)
        h == RunHandlers(EnterHandlers(inside), HandlerState(stack), inside)
    IN  /\ stack' = h.stack
        /\ reported' = h.reported
        /\ underflow' = (underflow \/ h.underflow)
        /\ event' = [phase |-> 1, node |-> child]
        /\ path' = IF child.type \in {"ThisExpression", "Super"}
                   THEN NoteUse(inside)
                   ELSE inside

\* The traversal enters a node: the handlers that match its entry run.
RuleEnter ==
    /\ rulePc = "run"
    /\ \E child \in NextChildren(path) : Enter(child)
    /\ UNCHANGED <<options, rulePc, notRule>>

\* The traversal of a class with attributed members enters a node.
MemberEnter ==
    /\ rulePc = "run"
    /\ \E child \in MemberChildren(path, event) : Enter(child)
    /\ UNCHANGED <<options, rulePc, notRule>>

\* The traversal leaves the node it is in: the handlers that match its exit run.
RuleLeave ==
    /\ rulePc = "run"
    /\ path # <<>>
    /\ Complete(Last(path))
    /\ LET node == Last(path)
           h == RunHandlers(ExitHandlers(path), HandlerState(stack), path)
           rest == SubSeq(path, 1, Len(path) - 1)
           isFunction == node.type \in FunctionTypes
                             \/ node.type = "ArrowFunctionExpression"
       IN  /\ stack' = h.stack
           /\ reported' = h.reported
           /\ underflow' = (underflow \/ h.underflow)
           /\ event' = [phase |-> 2, node |-> node]
           /\ path' =
                  IF rest = <<>> THEN rest
                  ELSE [rest EXCEPT
                           ![Len(rest)].done =
                               IF Last(rest).type \in FixedTypes THEN @ + 1 ELSE @,
                           ![Len(rest)].valueUsed =
                               IF isFunction /\ node.field = "value"
                               THEN node.used ELSE @,
                           ![Len(rest)].nReports =
                               IF h.reported THEN @ + 1 ELSE @]
           /\ rulePc' = IF rest = <<>> THEN "done" ELSE "run"
    /\ UNCHANGED <<options, notRule>>

(***************************************************************************)
(* Properties of the rule                                                  *)
(***************************************************************************)
\* The k-th open usage scope of p, counted from the root.
ScopeAt(p, k) ==
    CHOOSE i \in UsageScopes(p) :
        Cardinality({j \in UsageScopes(p) : j <= i}) = k

IsThisEvent == event.phase = 1 /\ event.node.type \in {"ThisExpression", "Super"}

\* C2: with default options, when a method is left, the number of problems
\* reported for it (for a function whose parent it is) is one if it is
\* non-static, not a constructor and its function has no `this` or `super`
\* outside nested usage scopes, and zero otherwise.
C2_OneProblemPerMethod ==
    (/\ options = DefaultOptions
     /\ event.phase = 2
     /\ event.node.type = "MethodDefinition")
        => event.node.nReports =
               IF /\ ~event.node.static
                  /\ event.node.kind # "constructor"
                  /\ ~event.node.valueUsed
               THEN 1
               ELSE 0

\* The same count for the methods whose key is not a function expression.
C2_WhenKeyIsNoFunction ==
    event.node.keyType # "FunctionExpression" => C2_OneProblemPerMethod

\* C3: the frames of the stack are the used flags of the open usage scopes,
\* in order: a `this` or `super`, which lies directly in the innermost open
\* usage scope only, has changed the top frame only, and with no usage scope
\* open it has changed nothing.
C3_OnlyTopFrame ==
    /\ \A k \in 1..Len(stack) :
           k <= Cardinality(UsageScopes(path))
               => stack[k] = path[ScopeAt(path, k)].used
    /\ (IsThisEvent /\ UsageScopes(path) = {}) => stack = <<>>

\* A `this` directly in a static block of a class nested in a method: the
\* frame of the static block is set, the frame of the method's function is not.
C3_Witness ==
    /\ IsThisEvent
    /\ Len(path) > 2
    /\ path[Len(path) - 1].type = "StaticBlock"
    /\ \E i \in 2..Len(path) :
           path[i].type = "FunctionExpression" /\ path[i].field = "value"
               /\ path[i - 1].type = "MethodDefinition"
    /\ stack = <<FALSE, TRUE>>

\* C4: the depth of the stack is the number of open usage scopes, the stack
\* is never popped when empty, and it is empty when the traversal has ended.
C4_BalancedStack ==
    /\ Len(stack) = Cardinality(UsageScopes(path))
    /\ ~underflow
    /\ rulePc = "done" => stack = <<>>

\* Inside an arrow function that is the value of a class field of a class
\* nested in a static block: three usage scopes are open.
C4_Witness ==
    /\ options.enforceForClassFields
    /\ path # <<>>
    /\ IsFieldArrow(path)
    /\ \E i \in 1..Len(path) : path[i].type = "StaticBlock"
    /\ Len(stack) = 3

\* The traversal has ended after a function was left: the stack is empty again.
C4_EndReached ==
    rulePc = "done" /\ event.node.type = "Program" /\ stack = <<>>

\* C33: a problem is reported only when a function is left that is the value
\* of a class member; a function that sits elsewhere under a member, such as
\* a function expression that is its computed key, causes no problem.
C33_OnlyValueFunctions ==
    reported =>
        /\ event.phase = 2
        /\ event.node.type \in FunctionTypes \/ event.node.type = "ArrowFunctionExpression"
        /\ event.node.field = "value"

\* The same for the functions that are not the key of a member.
C33_WhenNotKey ==
    event.node.field # "key" => C33_OnlyValueFunctions

\* A problem has been reported on leaving a function that is the value of a
\* method.
C33_ValueReported ==
    /\ reported
    /\ event.node.field = "value"
    /\ path # <<>>
    /\ Last(path).type = "MethodDefinition"

(***************************************************************************)
(* Properties of the rule's options                                        *)
(*                                                                         *)
(* They are stated where a member whose value is a function has just been  *)
(* left: the member is event.node, with the number of problems reported    *)
(* for it, and its class is the node above the class body.                 *)
(***************************************************************************)
MemberLeft ==
    /\ event.phase = 2
    /\ event.node.type \in {"MethodDefinition", "PropertyDefinition"}
    /\ event.node.done = 2

ClassOfMember == path[Len(path) - 1]

\* An instance member of a kind the rule looks at.
QualifiesByKind(m) ==
    /\ ~m.static
    /\ m.type = "MethodDefinition" => m.kind # "constructor"
    /\ m.type \in FieldTypes => options.enforceForClassFields

ExemptAsOverride(m) == options.ignoreOverrideMethods /\ m.override

IsPublic(m) == m.accessibility \in {"none", "public"}

IsPrivateNamed(m) == m.keyType = "PrivateIdentifier"

ExemptByImplements(m, class) ==
    /\ class.implements
    /\ \/ options.ignoreClassesWithImplements = "all"
       \/ /\ options.ignoreClassesWithImplements = "public-fields"
          /\ IsPublic(m)
          /\ ~IsPrivateNamed(m)

\* The name of a member as it is written in an exception list.
ListedAs(m) == IF IsPrivateNamed(m) THEN "#" \o m.keyName ELSE m.keyName

\* C28: with ignoreOverrideMethods, no problem is reported for a member
\* marked as an override, whether or not it uses `this`.
C28_OverrideNeverReported ==
    (MemberLeft /\ ExemptAsOverride(event.node)) => event.node.nReports = 0

\* The same for the override members whose name is not computed.
C28_WhenNotComputed ==
    ~event.node.computed => C28_OverrideNeverReported

\* An override member with a computed name that does not use `this` has been
\* reported although ignoreOverrideMethods is set.
C28_ComputedReported ==
    /\ MemberLeft
    /\ ExemptAsOverride(event.node)
    /\ event.node.computed
    /\ event.node.nReports = 1

\* C29: with policy "all" no member of a class that implements an interface
\* is reported; with policy "public-fields" the public members without a
\* private name of such a class are not reported, while its other members
\* that do not use `this` (and that no other option excludes) are reported;
\* a member of a class that implements nothing is reported as if no policy
\* were set.
C29_ImplementsPolicy ==
    MemberLeft =>
        LET m == event.node
            otherwise == /\ QualifiesByKind(m)
                         /\ ~ExemptAsOverride(m)
                         /\ m.computed \/ ListedAs(m) \notin options.exceptMethods
                         /\ ~m.valueUsed
        IN  /\ ExemptByImplements(m, ClassOfMember) => m.nReports = 0
            /\ (~ExemptByImplements(m, ClassOfMember) /\ otherwise)
                   => m.nReports = 1

\* The same for the members with a name that is not computed, of a class
\* declaration.
C29_WhenDeclarationNotComputed ==
    (MemberLeft /\ ~event.node.computed
        /\ ClassOfMember.type = "ClassDeclaration")
        => C29_ImplementsPolicy

\* C30: a member with a non-computed name (that no other option excludes and
\* that does not use `this`) is reported if and only if the exception list
\* does not hold its name, a private name being listed with its `#`; a member
\* with a computed name is reported whatever the list holds.
C30_ExcludedByName ==
    MemberLeft =>
        LET m == event.node
            otherwise == /\ QualifiesByKind(m)
                         /\ ~ExemptAsOverride(m)
                         /\ ~ExemptByImplements(m, ClassOfMember)
                         /\ ~m.valueUsed
        IN  /\ (~m.computed /\ ListedAs(m) \in options.exceptMethods)
                   => m.nReports = 0
            /\ (~m.computed /\ otherwise)
                   => (m.nReports = 0 <=> ListedAs(m) \in options.exceptMethods)
            /\ (m.computed /\ otherwise) => m.nReports = 1

\* `#foo() {}` has been reported although `foo` is listed.
C30_Witness ==
    /\ MemberLeft
    /\ IsPrivateNamed(event.node)
    /\ options.exceptMethods = {"foo"}
    /\ event.node.nReports = 1

\* `['foo']() {}` has been reported although `foo` is listed.
C30_WhenComputedLiteral ==
    /\ MemberLeft
    /\ event.node.computed
    /\ event.node.keyType = "Literal"
    /\ event.node.keyName \in options.exceptMethods
    /\ event.node.nReports = 1

(***************************************************************************)
(* Inline configuration comments                                           *)
(*                                                                         *)
(* The text of a comment is kept as what the comment parser makes of it:   *)
(* the label it starts with ("none" when it starts with no label), the     *)
(* name:setting entries of its payload in order, and, for a rule           *)
(* configuration, whether the payload parses. A raw setting is a pair of   *)
(* its type and its text, so that true and "true" differ.                  *)
(***************************************************************************)
Str(v) == <<"string", v>>

Bool(v) == <<"boolean", v>>

NullValue == <<"null", "null">>

Value(label, entries, json) == [label |-> label, entries |-> entries, json |-> json]

\* No `#!` at the start of the text.
NoValue == Value("absent", <<>>, "none")

\* A comment, or a script marker, that starts with no label.
PlainValue == Value("none", <<>>, "none")

Entry(id, setting) == [id |-> id, setting |-> setting]

SuppressionLabels ==
    {"eslint-disable", "eslint-enable", "eslint-disable-next-line", "eslint-disable-line"}

\* The labels directivesPattern accepts.
DirectiveLabels ==
    SuppressionLabels \cup {"eslint", "eslint-env", "exported", "global", "globals"}

\* The payloads of the `globals` comments: valid and invalid settings, a name
\* without a setting, and two names of which one has an invalid setting.
GlobalsPayloads ==
    {<<Entry("a", Str(v))>> : v \in {"writable", "off", "writeable", "bogus"}}
    \cup {<<Entry("a", NullValue)>>,
          <<Entry("a", Str("bogus")), Entry("b", Str("readonly"))>>,
          <<Entry("b", Str("writable")), Entry("a", Str("bogus"))>>}

\* A comment before it is placed: its type, its text and the lines it spans.
Shape(type, value, span) == [type |-> type, value |-> value, span |-> span]

CommentShapes ==
    {Shape("Block", Value(l, <<>>, "none"), n) : l \in SuppressionLabels, n \in {1, 2}}
    \cup {Shape("Line", Value(l, <<>>, "none"), 1) :
              l \in {"eslint-disable", "eslint-disable-next-line", "eslint-disable-line"}}
    \cup {Shape("Block", Value("eslint", <<>>, j), 1) : j \in {"ok", "malformed"}}
    \cup {Shape("Block", Value("globals", e, "none"), 1) : e \in GlobalsPayloads}
    \cup {Shape("Block", Value("global", <<Entry("b", Str("off"))>>, "none"), 2),
          Shape("Line", Value("globals", <<Entry("a", Str("writable"))>>, "none"), 1),
          Shape("Block", Value("exported", <<Entry("a", Bool("true"))>>, "none"), 1),
          Shape("Block", Value("todo", <<>>, "none"), 1),
          Shape("Line", PlainValue, 1)}

\* The comments of a text in source order: comment i starts on line 2i - 1.
CommentLists ==
    UNION {[1..n -> CommentShapes] : n \in 0..MaxComments}

PlaceComments(shapes) ==
    [i \in 1..Len(shapes) |->
        [id |-> i, type |-> shapes[i].type, value |-> shapes[i].value,
         loc |-> [start |-> 2 * i - 1, end |-> 2 * i - 2 + shapes[i].span]]]

NoCache == [set |-> FALSE, value |-> <<>>]

Cached(v) == [set |-> TRUE, value |-> v]

NoDirectivesCache ==
    [set |-> FALSE, value |-> [problems |-> <<>>, directives |-> <<>>]]

NoCmtCall ==
    [fn |-> "none", nodes |-> <<>>, problems |-> <<>>, directives |-> <<>>,
     configs |-> <<>>, cached |-> FALSE]

\* The constructor leaving every comment as the parser typed it.
ShebangNotReclassified(cs, sheb) == cs

\* The constructor, lines 502-511: astUtils.shebangPattern matches when the
\* text starts with `#!`.
ShebangReclassified(cs, sheb) ==
    LET shebangMatched == sheb # NoValue
        hasShebang == shebangMatched /\ Len(cs) > 0 /\ cs[1].value = sheb
    IN  IF hasShebang THEN [cs EXCEPT ![1].type = "Shebang"] ELSE cs

\* commentParser.parseDirective(comment.value): undefined (label "none")
\* when the text starts with no label.
parseDirective(value) == value

lineCommentSupported(label) ==
    label \in {"eslint-disable-line", "eslint-disable-next-line"}

\* The filter of getInlineConfigNodes without the test for Shebang.
IsInlineConfigNodeShebangToo(comment) ==
    LET directive == parseDirective(comment.value)
    IN  IF directive.label = "none" THEN FALSE
        ELSE IF directive.label \notin DirectiveLabels THEN FALSE
        ELSE comment.type # "Line" \/ lineCommentSupported(directive.label)

\* The filter of getInlineConfigNodes.
IsInlineConfigNode(comment) ==
    IF comment.type = "Shebang" THEN FALSE
    ELSE LET directive == parseDirective(comment.value)
         IN  IF directive.label = "none" THEN FALSE
             ELSE IF directive.label \notin DirectiveLabels THEN FALSE
             ELSE comment.type # "Line" \/ lineCommentSupported(directive.label)

\* What getInlineConfigNodes() returns in the current state.
getInlineConfigNodes ==
    IF configNodes.set THEN configNodes.value
    ELSE SelectSeq(astComments, IsInlineConfigNode)

\* The scans of ast.comments a call of getInlineConfigNodes makes: none when
\* the nodes are cached.
FilterRuns == IF configNodes.set THEN 0 ELSE 1

\* label.slice("eslint-".length)
DirectiveType(label) ==
    CASE label = "eslint-disable" -> "disable"
      [] label = "eslint-enable" -> "enable"
      [] label = "eslint-disable-next-line" -> "disable-next-line"
      [] label = "eslint-disable-line" -> "disable-line"

MultiLineMessage(label) == <<label, "comment should not span multiple lines.">>

\* The callback of getDisableDirectives without the check of step 3.
DirectiveStepNoLineCheck(comment, acc) ==
    LET label == parseDirective(comment.value).label
    IN  IF comment.type = "Line" /\ ~lineCommentSupported(label)
        THEN acc
        ELSE IF label \in SuppressionLabels
        THEN [acc EXCEPT !.directives =
                 Append(@, [type |-> DirectiveType(label), node |-> comment])]
        ELSE acc

\* The callback of getDisableDirectives for one comment: acc holds the
\* problems and the directives collected so far.
DirectiveStep(comment, acc) ==
    LET label == parseDirective(comment.value).label
    IN  IF comment.type = "Line" /\ ~lineCommentSupported(label)
        THEN acc
        ELSE IF label = "eslint-disable-line" /\ comment.loc.start # comment.loc.end
        THEN [acc EXCEPT !.problems =
                 Append(@, [ruleId |-> "null", message |-> MultiLineMessage(label),
                            loc |-> comment.loc])]
        ELSE IF label \in SuppressionLabels
        THEN [acc EXCEPT !.directives =
                 Append(@, [type |-> DirectiveType(label), node |-> comment])]
        ELSE acc

\* forEach stopping at the first comment that adds a problem.
RECURSIVE DirectiveLoopStopAtProblem(_, _)
DirectiveLoopStopAtProblem(nodes, acc) ==
    IF nodes = <<>> \/ acc.problems # <<>>
    THEN acc
    ELSE DirectiveLoopStopAtProblem(Tail(nodes), DirectiveStep(Head(nodes), acc))

RECURSIVE DirectiveLoop(_, _)
DirectiveLoop(nodes, acc) ==
    IF nodes = <<>>
    THEN acc
    ELSE DirectiveLoop(Tail(nodes), DirectiveStep(Head(nodes), acc))

\* `${configuredValue}` in a template literal.
TemplateText(configuredValue) == configuredValue[2]

InvalidGlobalMessage(configuredValue) ==
    <<"'", TemplateText(configuredValue),
      "' is not a valid configuration for a global (use 'readonly', 'writable', or 'off')">>

NormalOk(v) == [ok |-> TRUE, value |-> v, message |-> <<>>]

\* normalizeConfigGlobal: the normalized setting, or the error thrown.
normalizeConfigGlobal(configuredValue) ==
    CASE configuredValue = Str("off") -> NormalOk("off")
      [] configuredValue \in {Bool("true"), Str("true"), Str("writeable"),
                              Str("writable")} -> NormalOk("writable")
      [] configuredValue \in {NullValue, Bool("false"), Str("false"),
                              Str("readable"), Str("readonly")} ->
             NormalOk("readonly")
      [] OTHER ->
             [ok |-> FALSE, value |-> "none",
              message |-> InvalidGlobalMessage(configuredValue)]

\* The entries of an object in key order: their ids, and the entry of an id.
Ids(entries) == {entries[i].id : i \in 1..Len(entries)}

EntryOf(entries, id) == entries[CHOOSE i \in 1..Len(entries) : entries[i].id = id]

\* obj[id] = entry: an existing key keeps its place, a new key comes last.
SetEntry(entries, entry) ==
    IF entry.id \in Ids(entries)
    THEN [i \in 1..Len(entries) |->
             IF entries[i].id = entry.id THEN entry ELSE entries[i]]
    ELSE Append(entries, entry)

Problem(comment, message) ==
    [ruleId |-> "null", loc |-> comment.loc, message |-> message]

\* The `globals` case of applyInlineConfig for the entries of one comment.
RECURSIVE GlobalsLoop(_, _, _)
GlobalsLoop(comment, entries, acc) ==
    IF entries = <<>>
    THEN acc
    ELSE LET id == Head(entries).id
             normalized == normalizeConfigGlobal(Head(entries).setting)
             next ==
                 IF ~normalized.ok
                 THEN [acc EXCEPT !.problems =
                          Append(@, Problem(comment, normalized.message))]
                 ELSE IF id \in Ids(acc.inlineGlobals)
                 THEN [acc EXCEPT !.inlineGlobals =
                          SetEntry(@, [id |-> id,
                                       comments |-> Append(EntryOf(@, id).comments,
                                                           comment),
                                       value |-> normalized.value])]
                 ELSE [acc EXCEPT !.inlineGlobals =
                          SetEntry(@, [id |-> id, comments |-> <<comment>>,
                                       value |-> normalized.value])]
         IN  GlobalsLoop(comment, Tail(entries), next)

\* Object.assign(exportedVariables, commentParser.parseListConfig(value))
RECURSIVE AssignAll(_, _)
AssignAll(target, entries) ==
    IF entries = <<>> THEN target
    ELSE AssignAll(SetEntry(target, Head(entries)), Tail(entries))

ParseErrorMessage == <<"Failed to parse JSON from the comment">>

\* The callback of applyInlineConfig for one comment.
InlineConfigStep(comment, acc) ==
    LET directive == parseDirective(comment.value)
        label == directive.label
    IN  CASE label = "exported" ->
                 [acc EXCEPT !.exportedVariables = AssignAll(@, directive.entries)]
          [] label \in {"globals", "global"} ->
                 GlobalsLoop(comment, directive.entries, acc)
          [] label = "eslint" ->
                 IF directive.json = "ok"
                 THEN [acc EXCEPT !.configs =
                          Append(@, [config |-> directive, loc |-> comment.loc])]
                 ELSE [acc EXCEPT !.problems =
                          Append(@, Problem(comment, ParseErrorMessage))]
          [] OTHER -> acc

\* forEach given up at the first comment that adds a problem.
RECURSIVE InlineConfigLoopStopAtProblem(_, _)
InlineConfigLoopStopAtProblem(nodes, acc) ==
    IF nodes = <<>> \/ acc.problems # <<>>
    THEN acc
    ELSE InlineConfigLoopStopAtProblem(Tail(nodes),
                                       InlineConfigStep(Head(nodes), acc))

RECURSIVE InlineConfigLoop(_, _)
InlineConfigLoop(nodes, acc) ==
    IF nodes = <<>>
    THEN acc
    ELSE InlineConfigLoop(Tail(nodes), InlineConfigStep(Head(nodes), acc))

\* A value of the vars cache that was never set.
Unset == [set |-> FALSE, entries |-> <<>>]

SetTo(entries) == [set |-> TRUE, entries |-> entries]

InitCmtFor(shapes, sheb) ==
    /\ shebangText = sheb
    /\ astComments = ShebangReclassified(PlaceComments(shapes), sheb)
    /\ configNodes = NoCache
    /\ disableDirectives = NoDirectivesCache
    /\ cmtCall = NoCmtCall
    /\ scans = 0

\* SourceCode.getInlineConfigNodes()
GetInlineConfigNodes ==
    /\ cmtCall = NoCmtCall
    /\ configNodes' = Cached(getInlineConfigNodes)
    /\ scans' = scans + FilterRuns
    /\ cmtCall' = [NoCmtCall EXCEPT !.fn = "getInlineConfigNodes",
                                    !.nodes = getInlineConfigNodes,
                                    !.cached = configNodes.set]
    /\ UNCHANGED <<shebangText, astComments, disableDirectives, scopeVars, notCmt>>

\* SourceCode.getDisableDirectives()
GetDisableDirectives ==
    /\ cmtCall = NoCmtCall
    /\ IF disableDirectives.set
       THEN /\ cmtCall' = [NoCmtCall EXCEPT
                              !.fn = "getDisableDirectives",
                              !.problems = disableDirectives.value.problems,
                              !.directives = disableDirectives.value.directives,
                              !.cached = TRUE]
            /\ UNCHANGED <<configNodes, disableDirectives, scans>>
       ELSE LET result == DirectiveLoop(getInlineConfigNodes,
                                        [problems |-> <<>>, directives |-> <<>>])
            IN  /\ configNodes' = Cached(getInlineConfigNodes)
                /\ scans' = scans + FilterRuns
                /\ disableDirectives' = Cached(result)
                /\ cmtCall' = [NoCmtCall EXCEPT
                                  !.fn = "getDisableDirectives",
                                  !.problems = result.problems,
                                  !.directives = result.directives]
    /\ UNCHANGED <<shebangText, astComments, scopeVars, notCmt>>

\* SourceCode.applyInlineConfig(), which the core calls before finalize().
ApplyInlineConfig ==
    /\ cmtCall = NoCmtCall
    /\ finalizeCalls = 0
    /\ LET result ==
               InlineConfigLoop(getInlineConfigNodes,
                                [problems |-> <<>>, configs |-> <<>>,
                                 exportedVariables |-> <<>>, inlineGlobals |-> <<>>])
       IN  /\ configNodes' = Cached(getInlineConfigNodes)
           /\ scans' = scans + FilterRuns
           /\ inlineGlobals' = SetTo(result.inlineGlobals)
           /\ exportedVariables' = SetTo(result.exportedVariables)
           /\ cmtCall' = [NoCmtCall EXCEPT !.fn = "applyInlineConfig",
                                           !.problems = result.problems,
                                           !.configs = result.configs]
    /\ UNCHANGED <<shebangText, astComments, disableDirectives, configGlobals,
                   globalScope, scopeBefore, finalizeCalls, scopePc, notCmt>>

\* The caller takes what the call returned and goes on.
CmtReturn ==
    /\ cmtCall # NoCmtCall
    /\ cmtCall' = NoCmtCall
    /\ UNCHANGED <<shebangText, astComments, configNodes, disableDirectives, scans,
                   scopeVars, notCmt>>

(***************************************************************************)
(* Inline configuration comments: properties                               *)
(***************************************************************************)
\* A comment of the suppression family among the inline configuration
\* comments: a block comment with one of the four labels, or a line comment
\* with eslint-disable-line or eslint-disable-next-line.
IsSuppressionComment(c) ==
    /\ c.type \in {"Line", "Block"}
    /\ c.value.label \in SuppressionLabels
    /\ c.type = "Line" =>
           c.value.label \in {"eslint-disable-line", "eslint-disable-next-line"}

SpansLines(c) == c.loc.start # c.loc.end

IsBadSameLine(c) ==
    IsSuppressionComment(c) /\ c.value.label = "eslint-disable-line" /\ SpansLines(c)

IsGoodSuppression(c) == IsSuppressionComment(c) /\ ~IsBadSameLine(c)

DirectivesReturned == cmtCall.fn = "getDisableDirectives"

\* C12: of the suppression comments, each eslint-disable-line comment that
\* spans lines gives one problem without a rule id at the comment and no
\* directive, and each other one gives one directive of its kind and no
\* problem, both in comment order, whatever comes before.
C12_OneOutputPerComment ==
    DirectivesReturned =>
        LET good == SelectSeq(astComments, IsGoodSuppression)
            bad == SelectSeq(astComments, IsBadSameLine)
        IN  /\ Len(cmtCall.directives) = Len(good)
            /\ \A i \in 1..Len(good) :
                   /\ cmtCall.directives[i].node = good[i]
                   /\ cmtCall.directives[i].type =
                          DirectiveType(good[i].value.label)
            /\ Len(cmtCall.problems) = Len(bad)
            /\ \A i \in 1..Len(bad) :
                   /\ cmtCall.problems[i].loc = bad[i].loc
                   /\ cmtCall.problems[i].ruleId = "null"

\* A rejected eslint-disable-line comment is followed by a comment that
\* gives its directive.
C12_Witness ==
    /\ DirectivesReturned
    /\ Len(cmtCall.problems) = 1
    /\ Len(cmtCall.directives) = 1
    /\ cmtCall.problems[1].loc.start < cmtCall.directives[1].node.loc.start

\* C13 as stated: every suppression comment that spans lines gives a problem
\* and no directive, so no directive has a comment that spans lines.
C13_NoMultiLineDirective ==
    DirectivesReturned =>
        /\ \A i \in 1..Len(cmtCall.directives) :
               ~SpansLines(cmtCall.directives[i].node)
        /\ \A k \in 1..Len(astComments) :
               (IsSuppressionComment(astComments[k]) /\ SpansLines(astComments[k]))
                   => \E i \in 1..Len(cmtCall.problems) :
                          cmtCall.problems[i].loc = astComments[k].loc

\* C13 for the same-line suppression: an eslint-disable-line comment that
\* spans lines gives a problem and no directive, so no disable-line
\* directive has a comment that spans lines.
C13_NoMultiLineSameLineDirective ==
    DirectivesReturned =>
        /\ \A i \in 1..Len(cmtCall.directives) :
               cmtCall.directives[i].type = "disable-line"
                   => ~SpansLines(cmtCall.directives[i].node)
        /\ \A k \in 1..Len(astComments) :
               IsBadSameLine(astComments[k])
                   => /\ \E i \in 1..Len(cmtCall.problems) :
                             /\ cmtCall.problems[i].loc = astComments[k].loc
                             /\ cmtCall.problems[i].ruleId = "null"
                      /\ \A i \in 1..Len(cmtCall.directives) :
                             cmtCall.directives[i].node # astComments[k]

\* An eslint-disable-line comment over two lines was rejected while a block
\* eslint-disable comment over two lines gave its directive.
C13_Witness ==
    /\ DirectivesReturned
    /\ \E i \in 1..Len(cmtCall.problems) :
           cmtCall.problems[i].loc.start # cmtCall.problems[i].loc.end
    /\ \E i \in 1..Len(cmtCall.directives) :
           /\ cmtCall.directives[i].type = "disable"
           /\ SpansLines(cmtCall.directives[i].node)

\* Whether x comes from the first comment.
FromFirst(x) == x.loc = astComments[1].loc

\* C14: when the text starts with a script marker and the first comment is
\* that marker, the first comment has type Shebang and nothing comes of it:
\* it is no inline configuration node and gives no directive, problem, rule
\* configuration, global or exported name; no other comment has type Shebang.
C14_ShebangExcluded ==
    /\ \A k \in 2..Len(astComments) : astComments[k].type # "Shebang"
    /\ (shebangText = NoValue /\ astComments # <<>>)
           => astComments[1].type # "Shebang"
    /\ (/\ shebangText # NoValue
        /\ astComments # <<>>
        /\ astComments[1].value = shebangText)
           => /\ astComments[1].type = "Shebang"
              /\ \A i \in 1..Len(configNodes.value) :
                     ~FromFirst(configNodes.value[i])
              /\ \A i \in 1..Len(cmtCall.nodes) : ~FromFirst(cmtCall.nodes[i])
              /\ \A i \in 1..Len(cmtCall.directives) :
                     ~FromFirst(cmtCall.directives[i].node)
              /\ \A i \in 1..Len(cmtCall.problems) :
                     ~FromFirst(cmtCall.problems[i])
              /\ \A i \in 1..Len(cmtCall.configs) : ~FromFirst(cmtCall.configs[i])
              /\ \A i \in 1..Len(inlineGlobals.entries) :
                     \A j \in 1..Len(inlineGlobals.entries[i].comments) :
                         ~FromFirst(inlineGlobals.entries[i].comments[j])

\* The script marker reads like an eslint-disable-line comment, and the
\* directives come from the comment after it only.
C14_Witness ==
    /\ DirectivesReturned
    /\ Len(astComments) = 2
    /\ astComments[1].type = "Shebang"
    /\ astComments[1].value.label = "eslint-disable-line"
    /\ Len(cmtCall.directives) = 1
    /\ cmtCall.directives[1].node = astComments[2]

\* The comments applyInlineConfig reads declarations from: block comments,
\* other than the script marker, labelled eslint, globals, global or exported.
IsDeclarationComment(comment) ==
    /\ comment.type = "Block"
    /\ comment.value.label \in {"eslint", "globals", "global", "exported"}

IsGlobalsComment(comment) ==
    IsDeclarationComment(comment) /\ comment.value.label \in {"globals", "global"}

\* The entries of a globals comment whose setting is invalid, and whether the
\* comment sets a name to a valid setting.
BadEntries(comment) ==
    {j \in 1..Len(comment.value.entries) :
        ~normalizeConfigGlobal(comment.value.entries[j].setting).ok}

DeclaresGlobal(comment, id) ==
    /\ IsGlobalsComment(comment)
    /\ \E j \in 1..Len(comment.value.entries) :
           /\ j \notin BadEntries(comment)
           /\ comment.value.entries[j].id = id

\* The number of problems a comment is answered with.
ProblemsFor(comment) ==
    IF ~IsDeclarationComment(comment) THEN 0
    ELSE IF comment.value.label = "eslint"
    THEN (IF comment.value.json = "ok" THEN 0 ELSE 1)
    ELSE IF IsGlobalsComment(comment) THEN Cardinality(BadEntries(comment))
    ELSE 0

IsGoodConfigComment(comment) ==
    /\ IsDeclarationComment(comment)
    /\ comment.value.label = "eslint"
    /\ comment.value.json = "ok"

DeclaredIds == {"a", "b"}

\* C15: applyInlineConfig never gives up at a bad declaration comment: every
\* malformed rule configuration comment and every invalid setting of a
\* globals comment is answered with one problem without rule id at the
\* comment, and adds no configuration and no global; every other declaration,
\* before or after it, is in the result: the well-formed configurations in
\* comment order, and each name with the comments that set it validly and
\* the setting of the last of them.
C15_NeverAborts ==
    cmtCall.fn = "applyInlineConfig" =>
        LET goodConfigs == SelectSeq(astComments, IsGoodConfigComment)
        IN  /\ \A i \in 1..Len(astComments) :
                   Len(SelectSeq(cmtCall.problems,
                                 LAMBDA p : p.loc = astComments[i].loc))
                       = ProblemsFor(astComments[i])
            /\ \A k \in 1..Len(cmtCall.problems) :
                   /\ cmtCall.problems[k].ruleId = "null"
                   /\ \E i \in 1..Len(astComments) :
                          cmtCall.problems[k].loc = astComments[i].loc
                   /\ k > 1 => cmtCall.problems[k - 1].loc.start
                                   <= cmtCall.problems[k].loc.start
            /\ Len(cmtCall.configs) = Len(goodConfigs)
            /\ \A k \in 1..Len(goodConfigs) :
                   /\ cmtCall.configs[k].loc = goodConfigs[k].loc
                   /\ cmtCall.configs[k].config = goodConfigs[k].value
            /\ inlineGlobals.set
            /\ \A id \in DeclaredIds :
                   LET setters == SelectSeq(astComments,
                                            LAMBDA cm : DeclaresGlobal(cm, id))
                   IN  IF setters = <<>>
                       THEN id \notin Ids(inlineGlobals.entries)
                       ELSE /\ id \in Ids(inlineGlobals.entries)
                            /\ EntryOf(inlineGlobals.entries, id).comments = setters
                            /\ \E j \in 1..Len(setters[Len(setters)].value.entries) :
                                   LET e == setters[Len(setters)].value.entries[j]
                                   IN  /\ e.id = id
                                       /\ EntryOf(inlineGlobals.entries, id).value
                                              = normalizeConfigGlobal(e.setting).value
            /\ Ids(inlineGlobals.entries) \subseteq DeclaredIds

\* A comment with an invalid setting was answered with a problem, the valid
\* setting of the same comment took effect, and so did the configuration of
\* the comment after it.
C15_Witness ==
    /\ cmtCall.fn = "applyInlineConfig"
    /\ cmtCall.problems # <<>>
    /\ \E k \in 1..Len(cmtCall.configs) :
           cmtCall.configs[k].loc.start > cmtCall.problems[1].loc.start
    /\ \E k \in 1..Len(inlineGlobals.entries) :
           inlineGlobals.entries[k].comments[1].loc = cmtCall.problems[1].loc

\* The settings the configuration input is documented to take.
DocumentedSettings ==
    {Str("writable"), Str("readonly"), Bool("true"), Bool("false"), NullValue,
     Str("off")}

UndocumentedEntries(comment) ==
    {j \in 1..Len(comment.value.entries) :
        comment.value.entries[j].setting \notin DocumentedSettings}

\* C20: a global setting is accepted if and only if it is one of "writable",
\* "readonly", true, false, null or "off", and the error for any other value
\* names both the global and the value: a globals comment is answered with
\* one problem for each of its entries with another setting, and the message
\* of each such problem holds the name and the value of such an entry.
C20_DocumentedSettingsOnly ==
    cmtCall.fn = "applyInlineConfig" =>
        \A i \in 1..Len(astComments) :
            IsGlobalsComment(astComments[i]) =>
                LET comment == astComments[i]
                    raised == SelectSeq(cmtCall.problems,
                                        LAMBDA p : p.loc = comment.loc)
                IN  /\ Len(raised) = Cardinality(UndocumentedEntries(comment))
                    /\ \A k \in 1..Len(raised) :
                           \E j \in UndocumentedEntries(comment) :
                               LET parts == {raised[k].message[n] :
                                                n \in 1..Len(raised[k].message)}
                               IN  /\ comment.value.entries[j].id \in parts
                                   /\ comment.value.entries[j].setting[2] \in parts

(***************************************************************************)
(* Globals and the global scope                                            *)
(*                                                                         *)
(* An object is kept as the sequence of its entries in key order. The      *)
(* global scope holds its variables, its name table (set: the index in     *)
(* variables of the variable of a name), its pending references (through)  *)
(* and, when the scope manager makes one, the implicit structure.          *)
(***************************************************************************)
GlobalNames == {"a", "b"}

\* new eslintScope.Variable(id, globalScope): it has no definition, and the
\* properties ESLint adds are undefined.
Variable(name) ==
    [name |-> name, references |-> <<>>, writeable |-> FALSE,
     eslintExplicitGlobal |-> FALSE, eslintImplicitGlobalSetting |-> "undefined",
     eslintExplicitGlobalComments |-> <<>>, eslintUsed |-> FALSE,
     eslintExported |-> FALSE, defs |-> 0]

\* The variable of a declaration in the source: it has a definition.
DeclaredVariable(name) == [Variable(name) EXCEPT !.defs = 1]

Reference(id, name) == [id |-> id, name |-> name, resolved |-> "null"]

NoImplicit == [present |-> FALSE, variables |-> <<>>, set |-> {}, hasLeft |-> FALSE,
               left |-> <<>>]

\* The table of a list of variables.
TableOf(variables) ==
    [n \in {variables[i].name : i \in 1..Len(variables)} |->
        CHOOSE i \in 1..Len(variables) : variables[i].name = n]

\* The names of a list of references, each once, in order of first use.
RECURSIVE FirstUses(_, _)
FirstUses(refs, seen) ==
    IF refs = <<>> THEN <<>>
    ELSE IF Head(refs).name \in seen THEN FirstUses(Tail(refs), seen)
    ELSE <<[name |-> Head(refs).name]>>
             \o FirstUses(Tail(refs), seen \cup {Head(refs).name})

\* The global scope the scope manager makes of a script: the variables
\* declared at the top level, the references it left pending (those to the
\* names declared with var or function among them), and the implicit
\* structure over the pending names that are not declared.
Scopes ==
    {[variables |-> [i \in 1..Len(declared) |-> DeclaredVariable(declared[i])],
      set |-> TableOf([i \in 1..Len(declared) |-> DeclaredVariable(declared[i])]),
      through |-> [i \in 1..Len(names) |-> Reference(i, names[i])],
      implicit |->
          IF shape = "absent" THEN NoImplicit
          ELSE LET refs == [i \in 1..Len(names) |-> Reference(i, names[i])]
                   vs == FirstUses(refs, {declared[i] : i \in 1..Len(declared)})
               IN  [present |-> TRUE, variables |-> vs,
                    set |-> {vs[i].name : i \in 1..Len(vs)},
                    hasLeft |-> shape = "left",
                    left |-> IF shape = "left" THEN refs ELSE <<>>]] :
        declared \in {<<>>, <<"a">>},
        names \in UNION {[1..n -> GlobalNames \cup {"c"}] : n \in 0..MaxRefs},
        shape \in {"absent", "variables", "left"}}

\* languageOptions.globals as applyLanguageOptions stores it.
ConfigValues == {Str("readonly"), Bool("true"), Str("off"), Str("bogus")}

ConfigGlobals ==
    {<<>>}
    \cup {<<Entry(n, v)>> : n \in GlobalNames, v \in ConfigValues}
    \cup {<<Entry(n, v), Entry(m, w)>> :
              <<n, m>> \in {<<"a", "b">>, <<"b", "a">>},
              <<v, w>> \in ConfigValues \X ConfigValues}

\* The comments of the texts whose scopes are augmented: none, or one comment
\* that declares globals or exported names.
DeclarationShapes ==
    {c \in CommentShapes :
        c.type = "Block" /\ c.value.label \in {"globals", "global", "exported"}}

DeclarationLists == {<<>>} \cup {<<c>> : c \in DeclarationShapes}

\* A parameter that is undefined takes its default, {}.
OrEmpty(cached) == IF cached.set THEN cached.entries ELSE <<>>

\* new Set([...Object.keys(configGlobals), ...Object.keys(inlineGlobals)])
RECURSIVE KeysOnce(_, _)
KeysOnce(entries, seen) ==
    IF entries = <<>> THEN <<>>
    ELSE IF Head(entries).id \in seen THEN KeysOnce(Tail(entries), seen)
    ELSE <<Head(entries).id>> \o KeysOnce(Tail(entries), seen \cup {Head(entries).id})

\* The body of the per-name loop with the configured value before the
\* inline one: value = configValue || commentValue.
DeclareGlobalConfigFirst(scope, id, configValue, inline) ==
    LET declaredInline == id \in Ids(inline)
        value == IF configValue # "undefined" THEN configValue
                 ELSE EntryOf(inline, id).value
        sourceComments == IF declaredInline THEN EntryOf(inline, id).comments
                          ELSE <<>>
        found == id \in DOMAIN scope.set
        withVariable ==
            IF found THEN scope
            ELSE [scope EXCEPT
                     !.variables = Append(@, Variable(id)),
                     !.set = [n \in DOMAIN @ \cup {id} |->
                                 IF n = id THEN Len(scope.variables) + 1 ELSE @[n]]]
        i == withVariable.set[id]
    IN  IF value = "off"
        THEN scope
        ELSE [withVariable EXCEPT
                 !.variables[i].eslintImplicitGlobalSetting = configValue,
                 !.variables[i].eslintExplicitGlobal = declaredInline,
                 !.variables[i].eslintExplicitGlobalComments = sourceComments,
                 !.variables[i].writeable = (value = "writable")]

\* The body of the per-name loop of addDeclaredGlobals once the configured
\* value is normalized.
DeclareGlobal(scope, id, configValue, inline) ==
    LET declaredInline == id \in Ids(inline)
        commentValue == IF declaredInline THEN EntryOf(inline, id).value
                        ELSE "undefined"
        value == IF declaredInline THEN commentValue ELSE configValue
        sourceComments == IF declaredInline THEN EntryOf(inline, id).comments
                          ELSE <<>>
        found == id \in DOMAIN scope.set
        withVariable ==
            IF found THEN scope
            ELSE [scope EXCEPT
                     !.variables = Append(@, Variable(id)),
                     !.set = [n \in DOMAIN @ \cup {id} |->
                                 IF n = id THEN Len(scope.variables) + 1 ELSE @[n]]]
        i == withVariable.set[id]
    IN  IF value = "off"
        THEN scope
        ELSE [withVariable EXCEPT
                 !.variables[i].eslintImplicitGlobalSetting = configValue,
                 !.variables[i].eslintExplicitGlobal = declaredInline,
                 !.variables[i].eslintExplicitGlobalComments = sourceComments,
                 !.variables[i].writeable = (value = "writable")]

\* The per-name loop of addDeclaredGlobals, lines 278-311: the scope it
\* leaves and whether normalizeConfigGlobal threw on the way.
RECURSIVE DeclareLoop(_, _, _, _)
DeclareLoop(scope, ids, config, inline) ==
    IF ids = <<>>
    THEN [scope |-> scope, raised |-> FALSE]
    ELSE LET id == Head(ids)
             normalized ==
                 IF id \in Ids(config)
                 THEN normalizeConfigGlobal(EntryOf(config, id).setting)
                 ELSE NormalOk("undefined")
         IN  IF ~normalized.ok
             THEN [scope |-> scope, raised |-> TRUE]
             ELSE DeclareLoop(DeclareGlobal(scope, id, normalized.value, inline),
                              Tail(ids), config, inline)

\* The through list left as it is.
PruneThroughKeepAll(scope, refs) == scope

\* The filter with a callback that links the reference and its variable and
\* returns true all the same.
RECURSIVE PruneThroughKeepResolved(_, _)
PruneThroughKeepResolved(scope, refs) ==
    IF refs = <<>>
    THEN scope
    ELSE LET reference == Head(refs)
             name == reference.name
         IN  IF name \in DOMAIN scope.set
             THEN PruneThroughKeepResolved(
                      [scope EXCEPT
                          !.variables[scope.set[name]].references =
                              Append(@, [reference EXCEPT !.resolved = name])],
                      Tail(refs))
             ELSE PruneThroughKeepResolved(scope, Tail(refs))

\* globalScope.through.filter(...), lines 318-334, with its side effects.
RECURSIVE PruneThrough(_, _)
PruneThrough(scope, refs) ==
    IF refs = <<>>
    THEN [scope EXCEPT !.through = <<>>]
    ELSE LET reference == Head(refs)
             name == reference.name
         IN  IF name \in DOMAIN scope.set
             THEN PruneThrough(
                      [scope EXCEPT
                          !.variables[scope.set[name]].references =
                              Append(@, [reference EXCEPT !.resolved = name])],
                      Tail(refs))
             ELSE LET rest == PruneThrough(scope, Tail(refs))
                  IN  [rest EXCEPT !.through = <<reference>> \o @]

\* The pruning of globalScope.implicit, lines 348-364.
PruneImplicit(scope) ==
    LET implicit == scope.implicit
        bound(name) == name \in DOMAIN scope.set
        keptVariable(variable) == ~bound(variable.name)
        keptReference(reference) == ~bound(reference.name)
        removed == {implicit.variables[i].name : i \in
                       {j \in 1..Len(implicit.variables) :
                           bound(implicit.variables[j].name)}}
    IN  IF implicit.present
        THEN [scope EXCEPT
                 !.implicit.variables = SelectSeq(@, keptVariable),
                 !.implicit.set = @ \ removed,
                 !.implicit.left =
                     IF implicit.hasLeft THEN SelectSeq(@, keptReference) ELSE @]
        ELSE scope

\* addDeclaredGlobals(globalScope, configGlobals, inlineGlobals)
addDeclaredGlobals(scope, config, inline) ==
    LET declared == DeclareLoop(scope, KeysOnce(config \o inline, {}), config, inline)
    IN  IF declared.raised
        THEN declared
        ELSE [scope |-> PruneImplicit(PruneThrough(declared.scope,
                                                   declared.scope.through)),
              raised |-> FALSE]

\* markExportedVariables flagging every variable of the scope.
markExportedVariablesAll(scope, variables) ==
    [scope EXCEPT
        !.variables = [i \in 1..Len(@) |->
                          [@[i] EXCEPT !.eslintUsed = TRUE, !.eslintExported = TRUE]]]

\* markExportedVariables(globalScope, variables)
RECURSIVE markExportedVariables(_, _)
markExportedVariables(scope, variables) ==
    IF variables = <<>>
    THEN scope
    ELSE LET name == Head(variables).id
         IN  markExportedVariables(
                 IF name \in DOMAIN scope.set
                 THEN [scope EXCEPT
                          !.variables[scope.set[name]].eslintUsed = TRUE,
                          !.variables[scope.set[name]].eslintExported = TRUE]
                 ELSE scope,
                 Tail(variables))

InitScopeFor(scope) ==
    /\ globalScope = scope
    /\ configGlobals = Unset
    /\ inlineGlobals = Unset
    /\ exportedVariables = Unset
    /\ scopeBefore = scope
    /\ finalizeCalls = 0
    /\ scopePc = "fresh"

\* SourceCode.applyLanguageOptions(languageOptions), which the core calls
\* once, before finalize(): the configured globals are stored.
ApplyLanguageOptions ==
    /\ ~configGlobals.set
    /\ finalizeCalls = 0
    /\ \E config \in ConfigGlobals : configGlobals' = SetTo(config)
    /\ UNCHANGED <<inlineGlobals, exportedVariables, globalScope, scopeBefore,
                   finalizeCalls, scopePc, notScope>>

\* SourceCode.finalize(), called at most twice.
Finalize ==
    /\ finalizeCalls < 2
    /\ scopePc # "raised"
    /\ cmtCall = NoCmtCall
    /\ qryCall.fn = "none"
    /\ LET added == addDeclaredGlobals(globalScope, OrEmpty(configGlobals),
                                       OrEmpty(inlineGlobals))
       IN  /\ scopeBefore' = globalScope
           /\ finalizeCalls' = finalizeCalls + 1
           /\ IF added.raised
              THEN /\ globalScope' = added.scope
                   /\ scopePc' = "raised"
              ELSE /\ globalScope' =
                          IF exportedVariables.set
                          THEN markExportedVariables(added.scope,
                                                     exportedVariables.entries)
                          ELSE added.scope
                   /\ scopePc' = "finalized"
    /\ UNCHANGED <<configGlobals, inlineGlobals, exportedVariables, notScope>>

\* The names of the configured and of the inline globals, and the effective
\* setting of a name: the inline one when there is one.
AugmentedNames == Ids(OrEmpty(configGlobals)) \cup Ids(OrEmpty(inlineGlobals))

EffectiveSetting(name) ==
    IF name \in Ids(OrEmpty(inlineGlobals))
    THEN EntryOf(OrEmpty(inlineGlobals), name).value
    ELSE normalizeConfigGlobal(EntryOf(OrEmpty(configGlobals), name).setting).value

BindingsOf(scope, name) ==
    {i \in 1..Len(scope.variables) : scope.variables[i].name = name}

\* What augmentation sets on a binding.
SettingsOf(variable) ==
    <<variable.writeable, variable.eslintExplicitGlobal,
      variable.eslintImplicitGlobalSetting, variable.eslintExplicitGlobalComments>>

\* C16: after finalize, every name of the configured or inline globals has
\* the inline setting if there is one and the configured one otherwise; a
\* name that is off gets no binding and an existing binding keeps its
\* settings; any other name has exactly one binding, in the variables list
\* and in the name table, made only if there was none, writable exactly when
\* the effective setting is writable and explicit exactly when the name was
\* declared inline.
C16_EffectiveSetting ==
    scopePc = "finalized" =>
        /\ \A name \in AugmentedNames :
               IF EffectiveSetting(name) = "off"
               THEN /\ BindingsOf(globalScope, name) = BindingsOf(scopeBefore, name)
                    /\ (name \in DOMAIN globalScope.set)
                           = (name \in DOMAIN scopeBefore.set)
                    /\ \A i \in BindingsOf(globalScope, name) :
                           SettingsOf(globalScope.variables[i])
                               = SettingsOf(scopeBefore.variables[i])
               ELSE /\ Cardinality(BindingsOf(globalScope, name)) = 1
                    /\ name \in DOMAIN globalScope.set
                    /\ globalScope.set[name] \in BindingsOf(globalScope, name)
                    /\ BindingsOf(scopeBefore, name) # {} =>
                           BindingsOf(globalScope, name) = BindingsOf(scopeBefore, name)
                    /\ LET variable == globalScope.variables[globalScope.set[name]]
                       IN  /\ variable.writeable
                                  = (EffectiveSetting(name) = "writable")
                           /\ variable.eslintExplicitGlobal
                                  = (name \in Ids(OrEmpty(inlineGlobals)))
        /\ Len(globalScope.variables) =
               Len(scopeBefore.variables)
                   + Cardinality({name \in AugmentedNames :
                                     /\ EffectiveSetting(name) # "off"
                                     /\ BindingsOf(scopeBefore, name) = {}})

\* A name configured read-only and declared writable inline got a new,
\* writable, explicit binding, and a name that is off got none.
C16_Witness ==
    /\ scopePc = "finalized"
    /\ finalizeCalls = 1
    /\ \E name \in Ids(OrEmpty(configGlobals)) \cap Ids(OrEmpty(inlineGlobals)) :
           /\ normalizeConfigGlobal(EntryOf(configGlobals.entries, name).setting).value
                  = "readonly"
           /\ EffectiveSetting(name) = "writable"
           /\ BindingsOf(scopeBefore, name) = {}
           /\ globalScope.variables[globalScope.set[name]].writeable
    /\ \E name \in AugmentedNames :
           EffectiveSetting(name) = "off" /\ name \notin DOMAIN globalScope.set

IsBound(name) == name \in DOMAIN globalScope.set

\* The references of the pending list before the call that are no longer in it.
RemovedFromThrough ==
    {r \in 1..Len(scopeBefore.through) :
        \A k \in 1..Len(globalScope.through) :
            globalScope.through[k].id # scopeBefore.through[r].id}

\* C17: after finalize no pending reference has a name bound in the root
\* scope; every reference taken off the list is resolved to the binding of
\* its name and is exactly once among that binding's references; the other
\* references stay in their order. An implicit structure, when the scope has
\* one, keeps no variable, no key and no pending reference of a bound name,
\* and a scope without one is augmented all the same.
C17_ThroughPruned ==
    scopePc = "finalized" =>
        /\ \A k \in 1..Len(globalScope.through) : ~IsBound(globalScope.through[k].name)
        /\ \A r \in RemovedFromThrough :
               LET reference == scopeBefore.through[r]
               IN  /\ IsBound(reference.name)
                   /\ LET references ==
                              globalScope.variables[globalScope.set[reference.name]]
                                  .references
                      IN  /\ Cardinality({k \in 1..Len(references) :
                                             references[k].id = reference.id}) = 1
                          /\ \A k \in 1..Len(references) :
                                 references[k].id = reference.id =>
                                     references[k].resolved = reference.name
        /\ globalScope.through
               = SelectSeq(scopeBefore.through, LAMBDA ref : ~IsBound(ref.name))
        /\ IF globalScope.implicit.present
           THEN /\ \A k \in 1..Len(globalScope.implicit.variables) :
                       ~IsBound(globalScope.implicit.variables[k].name)
                /\ \A name \in globalScope.implicit.set : ~IsBound(name)
                /\ \A k \in 1..Len(globalScope.implicit.left) :
                       ~IsBound(globalScope.implicit.left[k].name)
           ELSE globalScope.implicit = scopeBefore.implicit

\* A pending reference was resolved to a binding the call made, another one
\* stayed pending, and the implicit structure lost a variable and a
\* reference.
C17_Witness ==
    /\ scopePc = "finalized"
    /\ finalizeCalls = 1
    /\ \E r \in RemovedFromThrough :
           scopeBefore.through[r].name \notin DOMAIN scopeBefore.set
    /\ globalScope.through # <<>>
    /\ globalScope.implicit.present
    /\ Len(globalScope.implicit.variables) < Len(scopeBefore.implicit.variables)
    /\ Len(globalScope.implicit.left) < Len(scopeBefore.implicit.left)

\* A scope without implicit structure was augmented and a pending reference
\* resolved.
C17_WhenNoImplicit ==
    /\ scopePc = "finalized"
    /\ ~globalScope.implicit.present
    /\ RemovedFromThrough # {}

\* C18: augmentation is idempotent: a second finalize with the same
\* configured and inline globals leaves the root scope as the first one left
\* it: the same bindings with the same settings, the same pending list and
\* the same references of each binding.
C18_Idempotent ==
    (finalizeCalls = 2 /\ scopePc = "finalized") => globalScope = scopeBefore

\* The second call came after a first one that made a binding, resolved a
\* pending reference to it and marked a binding exported or explicit.
C18_Witness ==
    /\ finalizeCalls = 2
    /\ scopePc = "finalized"
    /\ \E i \in 1..Len(globalScope.variables) :
           /\ globalScope.variables[i].references # <<>>
           /\ globalScope.variables[i].eslintExplicitGlobal
    /\ \E i \in 1..Len(globalScope.variables) :
           globalScope.variables[i].eslintImplicitGlobalSetting = "readonly"
    /\ globalScope.through # <<>>

\* C19: augmentation cannot fail part-way: whenever finalize raises, the root
\* scope's bindings, their settings and the pending list are as they were
\* before the call.
C19_NoPartialAugmentation ==
    scopePc = "raised" => globalScope = scopeBefore

ExportedNames == Ids(OrEmpty(exportedVariables))

\* The used and exported flags of the binding of a name before the call;
\* those of a binding the call made were unset.
FlagsBefore(name) ==
    IF name \in DOMAIN scopeBefore.set
    THEN <<scopeBefore.variables[scopeBefore.set[name]].eslintUsed,
           scopeBefore.variables[scopeBefore.set[name]].eslintExported>>
    ELSE <<FALSE, FALSE>>

\* C22: after finalize every exported name that has a binding in the root
\* scope's table has it flagged used and exported; an exported name without
\* binding is ignored, none is made for it; the flags of every other binding
\* are as they were.
C22_ExportedMarked ==
    scopePc = "finalized" =>
        /\ \A name \in ExportedNames :
               IF name \in DOMAIN globalScope.set
               THEN /\ globalScope.variables[globalScope.set[name]].eslintUsed
                    /\ globalScope.variables[globalScope.set[name]].eslintExported
                    /\ \/ name \in DOMAIN scopeBefore.set
                       \/ name \in AugmentedNames /\ EffectiveSetting(name) # "off"
               ELSE BindingsOf(globalScope, name) = {}
        /\ \A i \in 1..Len(globalScope.variables) :
               LET variable == globalScope.variables[i]
               IN  variable.name \notin ExportedNames =>
                       <<variable.eslintUsed, variable.eslintExported>>
                           = FlagsBefore(variable.name)

\* An exported name with a binding was flagged next to a binding that is not
\* exported, and an exported name without binding was passed over.
C22_Witness ==
    /\ scopePc = "finalized"
    /\ finalizeCalls = 1
    /\ \E name \in ExportedNames :
           /\ name \in DOMAIN globalScope.set
           /\ ~FlagsBefore(name)[1]
           /\ globalScope.variables[globalScope.set[name]].eslintExported
    /\ \E i \in 1..Len(globalScope.variables) :
           globalScope.variables[i].name \notin ExportedNames

C22_WhenNotBound ==
    /\ scopePc = "finalized"
    /\ \E name \in ExportedNames : name \notin DOMAIN globalScope.set

(***************************************************************************)
(* Memoization                                                             *)
(***************************************************************************)
\* The texts whose comments and tree are both queried: at most one comment.
MemoCommentLists == {shapes \in CommentLists : Len(shapes) <= 1}

\* C27: getInlineConfigNodes, getDisableDirectives and traverse are
\* memoized: the comments are scanned at most once and the tree is walked at
\* most once, whatever calls are made; what a call returns is what the first
\* call computed and the cache holds: the configuration comments of
\* ast.comments, the directives and problems made of them, and the steps of
\* the one walk.
C27_Memoized ==
    /\ scans <= 1
    /\ walks <= 1
    /\ configNodes.set =>
           /\ scans = 1
           /\ configNodes.value = SelectSeq(astComments, IsInlineConfigNode)
    /\ disableDirectives.set =>
           disableDirectives.value
               = DirectiveLoop(SelectSeq(astComments, IsInlineConfigNode),
                               [problems |-> <<>>, directives |-> <<>>])
    /\ cmtCall.fn = "getInlineConfigNodes" => cmtCall.nodes = configNodes.value
    /\ cmtCall.fn = "getDisableDirectives" =>
           /\ disableDirectives.set
           /\ cmtCall.problems = disableDirectives.value.problems
           /\ cmtCall.directives = disableDirectives.value.directives
    /\ travRet.set => (walks = 1 /\ travRet.steps = steps)
    /\ (travRet.set /\ travRet.cached) => (travPc = "idle" /\ entered = Len(ast.parent))

\* Each of the three was called again and answered from its cache: one scan
\* and one walk were made.
C27_Witness ==
    /\ scans = 1
    /\ walks = 1
    /\ cmtCall.fn = "getDisableDirectives"
    /\ cmtCall.cached
    /\ cmtCall.directives # <<>>
    /\ travRet.set
    /\ travRet.cached
    /\ Len(travRet.steps) > 2

C27_WhenNodesCached ==
    cmtCall.fn = "getInlineConfigNodes" /\ cmtCall.cached /\ cmtCall.nodes # <<>>

(***************************************************************************)
(* Queries on the scopes                                                   *)
(*                                                                         *)
(* A node handed to isGlobalReference is a record of its type, its name    *)
(* and its identity (id): the identifier of a reference of the global      *)
(* scope has the id of the reference; id 0 is an identifier that resolves  *)
(* to a local binding and so is in no list of the global scope. The        *)
(* answers are kept as strings.                                            *)
(***************************************************************************)
Identifier(id, name) == [type |-> "Identifier", name |-> name, id |-> id]

LiteralNode == [type |-> "Literal", name |-> "none", id |-> -1]

\* The argument left out.
MissingNode == [type |-> "undefined", name |-> "none", id |-> -1]

NodeIds == (-1)..MaxRefs

\* A scope of the scope manager, and the scopes of the empty source: the
\* global scope alone, keyed to the Program node.
Scope(type, block, upper, childScopes, variables) ==
    [type |-> type, block |-> block, upper |-> upper, childScopes |-> childScopes,
     variables |-> variables]

GlobalOnly ==
    [list |-> <<Scope("global", 1, 0, <<>>, <<>>)>>, keyed |-> <<<<1>>>>]

\* No query in progress. A query keeps the node it was made with (node, or
\* target for a node of the tree), the answer (result, or scope for a scope)
\* and, for markVariableAsUsed, the scopes as the call found them.
NoQryCall ==
    [fn |-> "none", node |-> MissingNode, target |-> 0, name |-> "none",
     result |-> "none", scope |-> 0, before |-> <<>>]

InitQryFor(graph) ==
    /\ scopes = graph
    /\ scopesCache = [n \in 1..Len(graph.keyed) |-> 0]
    /\ globalRefCache = [i \in NodeIds |-> "unset"]
    /\ queries = 0
    /\ qryCall = NoQryCall

\* The references of the global scope, pending or resolved.
RECURSIVE Flatten(_)
Flatten(lists) ==
    IF lists = <<>> THEN <<>> ELSE Head(lists) \o Flatten(Tail(lists))

ReferencesOf(scope) ==
    scope.through
        \o Flatten([i \in 1..Len(scope.variables) |-> scope.variables[i].references])

\* The nodes isGlobalReference is called with: the identifier of a reference
\* of the global scope, an identifier that resolves to a local binding, a
\* node that is no identifier, or none.
GlobalRefNodes ==
    {Identifier(ReferencesOf(globalScope)[k].id, ReferencesOf(globalScope)[k].name) :
        k \in 1..Len(ReferencesOf(globalScope))}
    \cup {Identifier(0, name) : name \in GlobalNames}
    \cup {LiteralNode, MissingNode}

\* isGlobalReference past its cache, lines 944-960.
isGlobalReferenceUncached(node) ==
    IF node.type # "Identifier"
    THEN "false"
    ELSE IF node.name \notin DOMAIN globalScope.set
    THEN "false"
    ELSE LET variable == globalScope.variables[globalScope.set[node.name]]
         IN  IF variable.defs > 0
             THEN "false"
             ELSE IF \E k \in 1..Len(variable.references) :
                         variable.references[k].id = node.id
             THEN "true"
             ELSE "false"

\* isGlobalReference with a cache that is never read.
isGlobalReferenceNoCache(node, cache) ==
    IF node = MissingNode
    THEN [result |-> "TypeError", cache |-> cache]
    ELSE [result |-> isGlobalReferenceUncached(node), cache |-> cache]

\* isGlobalReference(node): what it returns and the cache it leaves.
isGlobalReference(node, cache) ==
    IF node = MissingNode
    THEN [result |-> "TypeError", cache |-> cache]
    ELSE IF cache[node.id] # "unset"
    THEN [result |-> cache[node.id], cache |-> cache]
    ELSE [result |-> isGlobalReferenceUncached(node),
          cache |-> [cache EXCEPT ![node.id] = isGlobalReferenceUncached(node)]]

\* SourceCode.isGlobalReference(node)
IsGlobalReference ==
    /\ qryCall = NoQryCall
    /\ queries < MaxQueries
    /\ \E node \in GlobalRefNodes :
           LET answer == isGlobalReference(node, globalRefCache)
           IN  /\ globalRefCache' = answer.cache
               /\ qryCall' = [NoQryCall EXCEPT !.fn = "isGlobalReference",
                                               !.node = node,
                                               !.result = answer.result]
    /\ queries' = queries + 1
    /\ UNCHANGED <<scopes, scopesCache, rngVars, posVars, tokVars, travVars, ruleVars,
                   cmtVars, scopeVars>>

\* The caller takes the answer and goes on.
QryReturn ==
    /\ qryCall # NoQryCall
    /\ qryCall' = NoQryCall
    /\ UNCHANGED <<scopes, scopesCache, globalRefCache, queries, rngVars, posVars, tokVars,
                   travVars, ruleVars, cmtVars, scopeVars>>

(***************************************************************************)
(* The scopes of a tree                                                    *)
(*                                                                         *)
(* scopes.list holds the scopes, the global scope first; a scope names its *)
(* upper scope and its child scopes by their index in the list (0: none).  *)
(* scopes.keyed gives for each node the scopes the scope manager keeps for *)
(* it. A node other than the root has no scope, a function scope, the      *)
(* scope of a function expression's name with the function scope in it,    *)
(* both kept for the node ("named"), or only the former kept ("fen").      *)
(***************************************************************************)
ScopeVariable(name) == [name |-> name, eslintUsed |-> FALSE]

ScopeKinds == {"none", "function", "named", "fen"}

\* Where the names a and b are declared.
DeclarationPatterns == {"none", "outer", "module", "inner", "both"}

VariablesAt(pattern, type) ==
    CASE type = "global" /\ pattern \in {"outer", "both"} ->
             <<ScopeVariable("b"), ScopeVariable("a")>>
      [] type = "module" /\ pattern = "module" -> <<ScopeVariable("a")>>
      [] type = "function" /\ pattern \in {"inner", "both"} -> <<ScopeVariable("a")>>
      [] OTHER -> <<>>

\* The innermost scope of the nearest ancestor that has one.
RECURSIVE UpperOf(_, _, _)
UpperOf(tree, innermost, node) ==
    IF innermost[tree.parent[node]] # 0
    THEN innermost[tree.parent[node]]
    ELSE UpperOf(tree, innermost, tree.parent[node])

AddChild(list, upper, child) ==
    [list EXCEPT ![upper].childScopes = Append(@, child)]

RECURSIVE BuildScopes(_, _, _, _, _)
BuildScopes(tree, kinds, pattern, node, acc) ==
    IF node > Len(tree.parent)
    THEN [list |-> acc.list, keyed |-> acc.keyed]
    ELSE LET upper == UpperOf(tree, acc.innermost, node)
             k == Len(acc.list) + 1
             function(up) ==
                 Scope("function", node, up, <<>>, VariablesAt(pattern, "function"))
             name ==
                 Scope("function-expression-name", node, upper, <<k + 1>>, <<>>)
             next ==
                 CASE kinds[node] = "none" ->
                          [list |-> acc.list,
                           keyed |-> Append(acc.keyed, <<>>),
                           innermost |-> Append(acc.innermost, 0)]
                   [] kinds[node] = "function" ->
                          [list |-> Append(AddChild(acc.list, upper, k),
                                           function(upper)),
                           keyed |-> Append(acc.keyed, <<k>>),
                           innermost |-> Append(acc.innermost, k)]
                   [] OTHER ->
                          [list |-> AddChild(acc.list, upper, k)
                                        \o <<name, function(k)>>,
                           keyed |-> Append(acc.keyed,
                                            IF kinds[node] = "named"
                                            THEN <<k, k + 1>> ELSE <<k>>),
                           innermost |-> Append(acc.innermost, k + 1)]
         IN  BuildScopes(tree, kinds, pattern, node + 1, next)

\* The scopes of a tree: the global scope, the module scope if the source is
\* a module, and the scopes of the nodes below the root.
ScopesOfTree(tree, kinds, module, pattern) ==
    BuildScopes(tree, kinds, pattern, 2,
        IF module
        THEN [list |-> <<Scope("global", 1, 0, <<2>>, VariablesAt(pattern, "global")),
                         Scope("module", 1, 1, <<>>, VariablesAt(pattern, "module"))>>,
              keyed |-> <<<<1, 2>>>>,
              innermost |-> <<2>>]
        ELSE [list |-> <<Scope("global", 1, 0, <<>>, VariablesAt(pattern, "global"))>>,
              keyed |-> <<<<1>>>>,
              innermost |-> <<1>>])

ScopedTrees == {tree \in Trees : Len(tree.parent) <= MaxScopedNodes}

\* scopeManager.acquire(node, inner): the scope kept for the node, the
\* innermost or the outermost one if there are several; 0 for null.
acquire(node, inner) ==
    LET kept == scopes.keyed[node]
    IN  IF kept = <<>> THEN 0
        ELSE IF Len(kept) = 1 THEN kept[1]
        ELSE IF inner THEN kept[Len(kept)]
        ELSE kept[1]

\* The loop of getScope from a node on: lines 876-891.
RECURSIVE getScopeFrom(_, _)
getScopeFrom(node, inner) ==
    IF node \in {Null, Undefined}
    THEN 1
    ELSE IF acquire(node, inner) # 0
    THEN IF scopes.list[acquire(node, inner)].type = "function-expression-name"
         THEN scopes.list[acquire(node, inner)].childScopes[1]
         ELSE acquire(node, inner)
    ELSE getScopeFrom(parentField[node], inner)

\* getScope past its cache, lines 873-891.
getScopeUncached(currentNode) ==
    getScopeFrom(currentNode, ~(currentNode = 1 /\ ast.rootType = "Program"))

\* getScope with a cache that is never read.
getScopeNoCache(currentNode, cache) ==
    IF currentNode = 0
    THEN [result |-> "TypeError", scope |-> 0, cache |-> cache]
    ELSE [result |-> "scope", scope |-> getScopeUncached(currentNode), cache |-> cache]

\* getScope(currentNode): what it returns and the cache it leaves; node 0 is
\* the argument left out.
getScope(currentNode, cache) ==
    IF currentNode = 0
    THEN [result |-> "TypeError", scope |-> 0, cache |-> cache]
    ELSE IF cache[currentNode] # 0
    THEN [result |-> "scope", scope |-> cache[currentNode], cache |-> cache]
    ELSE [result |-> "scope", scope |-> getScopeUncached(currentNode),
          cache |-> [cache EXCEPT ![currentNode] = getScopeUncached(currentNode)]]

\* SourceCode.getScope(node), called while no traversal is under way.
GetScope ==
    /\ qryCall = NoQryCall
    /\ queries < MaxQueries
    /\ travPc = "idle"
    /\ \E node \in {0} \cup NodesOf(ast) :
           LET answer == getScope(node, scopesCache)
           IN  /\ scopesCache' = answer.cache
               /\ qryCall' = [NoQryCall EXCEPT !.fn = "getScope",
                                               !.target = node,
                                               !.result = answer.result,
                                               !.scope = answer.scope]
    /\ queries' = queries + 1
    /\ UNCHANGED <<scopes, globalRefCache, rngVars, posVars, tokVars, travVars, ruleVars,
                   cmtVars, scopeVars>>

\* The scope markVariableAsUsed starts at, lines 991-1009.
initialScope(list, currentScope) ==
    IF /\ list[currentScope].type = "global"
       /\ Len(list[currentScope].childScopes) > 0
       /\ list[list[currentScope].childScopes[1]].block = 1
    THEN list[currentScope].childScopes[1]
    ELSE currentScope

HasVariable(list, scope, name) ==
    \E i \in 1..Len(list[scope].variables) : list[scope].variables[i].name = name

\* scope.variables.find(scopeVar => scopeVar.name === name)
FindVariable(list, scope, name) ==
    Min({i \in 1..Len(list[scope].variables) : list[scope].variables[i].name = name})

\* The loop of markVariableAsUsed flagging every variable of the name on
\* its way.
RECURSIVE MarkFromEveryScope(_, _, _)
MarkFromEveryScope(list, scope, name) ==
    IF scope = 0
    THEN [result |-> "false", list |-> list]
    ELSE LET marked ==
                 IF HasVariable(list, scope, name)
                 THEN [list EXCEPT
                          ![scope].variables[FindVariable(list, scope, name)]
                              .eslintUsed = TRUE]
                 ELSE list
             rest == MarkFromEveryScope(marked, list[scope].upper, name)
         IN  [result |-> IF HasVariable(list, scope, name) THEN "true"
                         ELSE rest.result,
              list |-> rest.list]

\* The loop of markVariableAsUsed, lines 1011-1022.
RECURSIVE MarkFrom(_, _, _)
MarkFrom(list, scope, name) ==
    IF scope = 0
    THEN [result |-> "false", list |-> list]
    ELSE IF HasVariable(list, scope, name)
    THEN [result |-> "true",
          list |-> [list EXCEPT
                       ![scope].variables[FindVariable(list, scope, name)]
                           .eslintUsed = TRUE]]
    ELSE MarkFrom(list, list[scope].upper, name)

\* SourceCode.markVariableAsUsed(name, refNode)
MarkVariableAsUsed ==
    /\ qryCall = NoQryCall
    /\ queries < MaxQueries
    /\ travPc = "idle"
    /\ \E node \in NodesOf(ast), name \in {"a", "b", "c"} :
           LET currentScope == getScope(node, scopesCache)
               marked == MarkFrom(scopes.list,
                                  initialScope(scopes.list, currentScope.scope), name)
           IN  /\ scopesCache' = currentScope.cache
               /\ scopes' = [scopes EXCEPT !.list = marked.list]
               /\ qryCall' = [NoQryCall EXCEPT !.fn = "markVariableAsUsed",
                                               !.target = node,
                                               !.name = name,
                                               !.result = marked.result,
                                               !.scope = currentScope.scope,
                                               !.before = scopes.list]
    /\ queries' = queries + 1
    /\ UNCHANGED <<globalRefCache, rngVars, posVars, tokVars, travVars, ruleVars, cmtVars,
                   scopeVars>>

(***************************************************************************)
(* Queries on the scopes: properties                                       *)
(***************************************************************************)
\* The node is an identifier, the root scope has a binding of its name
\* without definitions, and the node is the identifier of one of the
\* binding's references.
IsReferenceToGlobal(node) ==
    /\ node.type = "Identifier"
    /\ \E i \in 1..Len(globalScope.variables) :
           /\ globalScope.variables[i].name = node.name
           /\ node.name \in DOMAIN globalScope.set
           /\ globalScope.set[node.name] = i
           /\ globalScope.variables[i].defs = 0
           /\ \E k \in 1..Len(globalScope.variables[i].references) :
                  globalScope.variables[i].references[k].id = node.id

GlobalReferenceAnswer ==
    /\ (qryCall.result = "TypeError") = (qryCall.node = MissingNode)
    /\ qryCall.node # MissingNode =>
           /\ qryCall.result \in {"true", "false"}
           /\ (qryCall.result = "true") = IsReferenceToGlobal(qryCall.node)

\* C23: isGlobalReference(node) returns true exactly when the node is an
\* identifier, the root scope has a binding of its name with no definitions
\* and the node is among that binding's references; it returns false for a
\* node that is no identifier, for a name with a definition and for an
\* occurrence that resolves to a local binding; without node it throws.
C23_GlobalReference ==
    qryCall.fn = "isGlobalReference" => GlobalReferenceAnswer

\* The same of the first query made on a SourceCode.
C23_FirstQuery ==
    (qryCall.fn = "isGlobalReference" /\ queries = 1) => GlobalReferenceAnswer

C23_FirstQueryTrue ==
    qryCall.fn = "isGlobalReference" /\ queries = 1 /\ qryCall.result = "true"

\* C26: the cache of isGlobalReference never changes an answer: whatever
\* queries and calls of finalize() came before, the value returned for a
\* node is the one computed anew at that moment.
C26_CacheTransparent ==
    (qryCall.fn = "isGlobalReference" /\ qryCall.node # MissingNode) =>
        qryCall.result = isGlobalReferenceUncached(qryCall.node)

\* The chain node, node.parent, ... as the parent links stand.
RECURSIVE ParentChain(_)
ParentChain(node) ==
    IF node \in {Null, Undefined} THEN <<>>
    ELSE <<node>> \o ParentChain(parentField[node])

\* A scope with the scope of a function expression's name replaced by its
\* first child scope.
Unwrapped(scope) ==
    IF scopes.list[scope].type = "function-expression-name"
    THEN scopes.list[scope].childScopes[1]
    ELSE scope

\* The scope of the nearest node of the chain the scope manager has a scope
\* for, the root scope if it has none for any.
NearestScope(node) ==
    LET chain == ParentChain(node)
        inner == ~(node = 1 /\ ast.rootType = "Program")
        with == {k \in 1..Len(chain) : acquire(chain[k], inner) # 0}
    IN  IF with = {} THEN 1
        ELSE Unwrapped(acquire(chain[Min(with)], inner))

ScopeAnswer ==
    /\ (qryCall.result = "TypeError") = (qryCall.target = 0)
    /\ qryCall.target # 0 =>
           /\ qryCall.result = "scope"
           /\ qryCall.scope = NearestScope(qryCall.target)

\* C24: getScope(node) returns the scope of the nearest node on the chain
\* node, node.parent, ... that has one, by the inner lookup unless the node
\* is the root Program node, with the scope of a function expression's name
\* replaced by its first child scope, and the root scope if no node of the
\* chain has a scope; without node it throws.
C24_NearestScope ==
    qryCall.fn = "getScope" => ScopeAnswer

\* The same of the first query made on a SourceCode.
C24_FirstQuery ==
    (qryCall.fn = "getScope" /\ queries = 1) => ScopeAnswer

\* The first query found the scope at an ancestor and unwrapped it.
C24_FirstQueryUnwrapped ==
    /\ qryCall.fn = "getScope"
    /\ queries = 1
    /\ qryCall.target # 0
    /\ acquire(qryCall.target, TRUE) = 0
    /\ qryCall.scope # 1
    /\ \E k \in 1..Len(scopes.list) :
           /\ scopes.list[k].type = "function-expression-name"
           /\ scopes.list[k].childScopes[1] = qryCall.scope

\* C25: the cache of getScope never changes an answer: whatever queries and
\* whether or not traverse() came before, the scope returned for a node is
\* the one computed anew at that moment.
C25_CacheTransparent ==
    (qryCall.fn = "getScope" /\ qryCall.target # 0) =>
        qryCall.scope = getScopeUncached(qryCall.target)

\* The scopes from the one markVariableAsUsed starts at outward.
RECURSIVE UpperChain(_, _)
UpperChain(list, scope) ==
    IF scope = 0 THEN <<>> ELSE <<scope>> \o UpperChain(list, list[scope].upper)

C21_WhenFromModule ==
    /\ qryCall.fn = "markVariableAsUsed"
    /\ qryCall.result = "true"
    /\ qryCall.scope = 1
    /\ scopes.list[1].variables = <<>>

C21_WhenNotFound ==
    qryCall.fn = "markVariableAsUsed" /\ qryCall.result = "false"

(***************************************************************************)
(* getNodeByRangeIndex                                                     *)
(*                                                                         *)
(* The tree is a parent vector, its nodes numbered in source order, with   *)
(* the range <<start, end>> of each node: a child lies inside its parent,  *)
(* siblings follow one another without overlap, and every node but the     *)
(* root holds at least one character. The Traverser calls enter(node),     *)
(* visits the children unless skip() or break() was called, and calls      *)
(* leave(node) unless break() was called.                                  *)
(***************************************************************************)
Intervals == {r \in (0..MaxOffset) \X (0..MaxOffset) : r[1] <= r[2]}

WellRanged(parent, range) ==
    /\ \A n \in 2..Len(parent) :
           /\ range[n][1] < range[n][2]
           /\ range[parent[n]][1] <= range[n][1]
           /\ range[n][2] <= range[parent[n]][2]
    /\ \A m, n \in 2..Len(parent) :
           (m < n /\ parent[m] = parent[n]) => range[m][2] <= range[n][1]

RangedTrees ==
    UNION {{[parent |-> p, range |-> r] :
               r \in {q \in [1..Len(p) -> Intervals] : WellRanged(p, q)}} :
              p \in UNION {ParentVectors(k) : k \in 1..MaxRangeNodes}}

NoRangeWalk ==
    [pc |-> "idle", index |-> 0, result |-> Null, node |-> 0, phase |-> 0,
     skipped |-> FALSE, broken |-> FALSE, visited |-> <<>>]

InitRngFor(tree) ==
    /\ rangeAst = tree
    /\ rangeWalk = NoRangeWalk

\* The children of node n, in source order.
ChildrenInOrder(n) ==
    SelectSeq([i \in 1..Len(rangeAst.parent) |-> i],
              LAMBDA c : rangeAst.parent[c] = n)

\* The sibling that follows node n, or 0.
NextSibling(n) ==
    LET later == SelectSeq(ChildrenInOrder(rangeAst.parent[n]), LAMBDA c : c > n)
    IN  IF n = 1 \/ later = <<>> THEN 0 ELSE Head(later)

\* What the Traverser does next: <<"enter", node>>, <<"leave", node>> or
\* <<"return", 0>>.
NextVisit(w) ==
    IF w.phase = 0 THEN <<"enter", 1>>
    ELSE IF w.phase = 1
    THEN IF ~w.skipped /\ ~w.broken /\ ChildrenInOrder(w.node) # <<>>
         THEN <<"enter", Head(ChildrenInOrder(w.node))>>
         ELSE IF w.broken THEN <<"return", 0>> ELSE <<"leave", w.node>>
    ELSE IF w.broken \/ w.node = 1 THEN <<"return", 0>>
    ELSE IF NextSibling(w.node) # 0 THEN <<"enter", NextSibling(w.node)>>
    ELSE <<"leave", rangeAst.parent[w.node]>>

\* getNodeByRangeIndex(index) is called: result = null, the walk begins.
GetNodeByRangeIndex ==
    /\ rangeWalk.pc = "idle"
    /\ \E index \in 0..MaxOffset :
           rangeWalk' = [NoRangeWalk EXCEPT !.pc = "walking", !.index = index]
    /\ UNCHANGED <<rangeAst, notRng>>

\* The enter callback.
RangeEnter ==
    /\ rangeWalk.pc = "walking"
    /\ NextVisit(rangeWalk)[1] = "enter"
    /\ LET node == NextVisit(rangeWalk)[2]
           inside == /\ rangeAst.range[node][1] <= rangeWalk.index
                     /\ rangeWalk.index < rangeAst.range[node][2]
       IN  rangeWalk' =
               [rangeWalk EXCEPT
                   !.node = node, !.phase = 1,
                   !.result = IF inside THEN node ELSE @,
                   !.skipped = ~inside,
                   !.visited = Append(@, <<1, node>>)]
    /\ UNCHANGED <<rangeAst, notRng>>

\* The leave callback without the call of break().
RangeLeaveNoBreak ==
    /\ rangeWalk.pc = "walking"
    /\ NextVisit(rangeWalk)[1] = "leave"
    /\ LET node == NextVisit(rangeWalk)[2]
       IN  rangeWalk' =
               [rangeWalk EXCEPT
                   !.node = node, !.phase = 2, !.skipped = FALSE,
                   !.visited = Append(@, <<2, node>>)]
    /\ UNCHANGED <<rangeAst, notRng>>

\* The leave callback.
RangeLeave ==
    /\ rangeWalk.pc = "walking"
    /\ NextVisit(rangeWalk)[1] = "leave"
    /\ LET node == NextVisit(rangeWalk)[2]
       IN  rangeWalk' =
               [rangeWalk EXCEPT
                   !.node = node, !.phase = 2, !.skipped = FALSE,
                   !.broken = (node = rangeWalk.result),
                   !.visited = Append(@, <<2, node>>)]
    /\ UNCHANGED <<rangeAst, notRng>>

\* Traverser.traverse returns; getNodeByRangeIndex returns result.
RangeReturn ==
    /\ rangeWalk.pc = "walking"
    /\ NextVisit(rangeWalk)[1] = "return"
    /\ rangeWalk' = [rangeWalk EXCEPT !.pc = "returned"]
    /\ UNCHANGED <<rangeAst, notRng>>

\* The caller takes the node returned and goes on.
RangeReturnTaken ==
    /\ rangeWalk.pc = "returned"
    /\ rangeWalk' = NoRangeWalk
    /\ UNCHANGED <<rangeAst, notRng>>

(***************************************************************************)
(* getNodeByRangeIndex: properties                                         *)
(***************************************************************************)
Contains(n, index) ==
    rangeAst.range[n][1] <= index /\ index < rangeAst.range[n][2]

RECURSIVE DepthOf(_)
DepthOf(n) == IF n = 1 THEN 0 ELSE 1 + DepthOf(rangeAst.parent[n])

RECURSIVE ProperAncestors(_)
ProperAncestors(n) ==
    IF n = 1 THEN {}
    ELSE {rangeAst.parent[n]} \cup ProperAncestors(rangeAst.parent[n])

RangeNodes == 1..Len(rangeAst.parent)

\* The deepest node whose range contains index, or null.
DeepestContaining(index) ==
    LET holding == {n \in RangeNodes : Contains(n, index)}
    IN  IF holding = {} THEN Null
        ELSE CHOOSE n \in holding : \A m \in holding : DepthOf(m) <= DepthOf(n)

\* C32: getNodeByRangeIndex(index) returns the deepest node whose range
\* [start, end) contains index, and null exactly when the root's range does
\* not contain it; no descendant of a node whose range does not contain index
\* is visited, and once the result node has been left no node is visited: the
\* leave of the result node is the last callback of the walk.
C32_DeepestNode ==
    LET w == rangeWalk
        enteredNodes == {w.visited[i][2] : i \in {j \in 1..Len(w.visited) :
                                                    w.visited[j][1] = 1}}
    IN  /\ w.pc = "returned" =>
               /\ w.result = DeepestContaining(w.index)
               /\ w.result = Null <=> ~Contains(1, w.index)
        /\ \A n \in enteredNodes :
               \A a \in ProperAncestors(n) : Contains(a, w.index)
        /\ \A i \in 1..Len(w.visited) :
               (w.visited[i][1] = 2 /\ Contains(w.visited[i][2], w.index)
                   /\ w.visited[i][2] = DeepestContaining(w.index))
                   => i = Len(w.visited)

\* The node returned is a first child two levels below the root; its later
\* sibling was never entered.
C32_Witness ==
    /\ rangeWalk.pc = "returned"
    /\ rangeWalk.result # Null
    /\ DepthOf(rangeWalk.result) = 2
    /\ NextSibling(rangeWalk.result) # 0
    /\ Last(rangeWalk.visited) = <<2, rangeWalk.result>>

\* The index lies in the root alone: its children were entered and skipped.
C32_WhenRootOnly ==
    /\ rangeWalk.pc = "returned"
    /\ rangeWalk.result = 1
    /\ Len(rangeWalk.visited) > 2

\* The index lies outside the root: null is returned.
C32_WhenOutside ==
    /\ rangeWalk.pc = "returned"
    /\ rangeWalk.result = Null
    /\ Len(rangeAst.parent) > 1

(***************************************************************************)
(* Specifications                                                          *)
(***************************************************************************)
\* The empty source: no text, no tokens, no comments.
PosIdle == InitPosFor(<<>>)

TokIdle == InitTokFor(<<>>)

\* The tree of the empty source: a Program node alone.
TravIdle == InitTravFor([parent |-> <<0>>, rootType |-> "Program"])

RuleIdle == InitRuleFor(DefaultOptions)

CmtIdle == InitCmtFor(<<>>, NoValue)

ScopeIdle == InitScopeFor(CHOOSE scope \in Scopes : scope.through = <<>>)

QryIdle == InitQryFor(GlobalOnly)

RngIdle == InitRngFor([parent |-> <<0>>, range |-> <<<<0, 0>>>>])

InitPos ==
    /\ \E t \in Texts : InitPosFor(t)
    /\ TokIdle /\ TravIdle /\ RuleIdle /\ CmtIdle /\ ScopeIdle /\ QryIdle /\ RngIdle

NextPos ==
    \/ ScanLineBreak
    \/ ScanEnd
    \/ CallGetLocFromIndex
    \/ CallGetIndexFromLoc
    \/ PosReturn

SpecPos == InitPos /\ [][NextPos]_vars

InitTok ==
    /\ \E layout \in Layouts : InitTokFor(layout)
    /\ PosIdle /\ TravIdle /\ RuleIdle /\ CmtIdle /\ ScopeIdle /\ QryIdle /\ RngIdle

NextTok ==
    \/ MergeStep
    \/ MergeEnd
    \/ CallIsSpaceBetween
    \/ CallIsSpaceBetweenTokens
    \/ SbReturn

SpecTok == InitTok /\ [][NextTok]_vars

InitTrav ==
    /\ \E tree \in Trees : InitTravFor(tree)
    /\ PosIdle /\ TokIdle /\ RuleIdle /\ CmtIdle /\ ScopeIdle /\ QryIdle /\ RngIdle

NextTrav ==
    \/ TraverseStart
    \/ TraverserEnter
    \/ TraverserLeave
    \/ TraverseReturn
    \/ TraverseCached
    \/ TravReturnTaken

SpecTrav == InitTrav /\ [][NextTrav]_vars

\* The rule with its default options, with and without enforceForClassFields.
RuleOptions ==
    {[DefaultOptions EXCEPT !.enforceForClassFields = e] : e \in BOOLEAN}

InitRule ==
    /\ \E opts \in RuleOptions : InitRuleFor(opts)
    /\ PosIdle /\ TokIdle /\ TravIdle /\ CmtIdle /\ ScopeIdle /\ QryIdle /\ RngIdle

NextRule ==
    \/ RuleEnter
    \/ RuleLeave

SpecRule == InitRule /\ [][NextRule]_vars

\* The rule with every combination of its options, on one class whose
\* members carry attributes.
MemberOptions ==
    [enforceForClassFields : BOOLEAN, exceptMethods : SUBSET ListedNames,
     ignoreOverrideMethods : BOOLEAN,
     ignoreClassesWithImplements : {"none", "all", "public-fields"}]

InitMember ==
    /\ \E opts \in MemberOptions : InitRuleFor(opts)
    /\ PosIdle /\ TokIdle /\ TravIdle /\ CmtIdle /\ ScopeIdle /\ QryIdle /\ RngIdle

NextMember ==
    \/ MemberEnter
    \/ RuleLeave

SpecMember == InitMember /\ [][NextMember]_vars

\* The comments of a text and the script marker it starts with, if any: none,
\* a plain one, or one that reads like the line comment that comes first.
InitCmt ==
    /\ \E shapes \in CommentLists :
           \E sheb \in {NoValue, PlainValue}
                        \cup {shapes[i].value :
                                 i \in {j \in {1} \cap (1..Len(shapes)) :
                                           shapes[j].type = "Line"}} :
               InitCmtFor(shapes, sheb)
    /\ PosIdle /\ TokIdle /\ TravIdle /\ RuleIdle /\ ScopeIdle /\ QryIdle /\ RngIdle

NextCmt ==
    \/ GetInlineConfigNodes
    \/ GetDisableDirectives
    \/ ApplyInlineConfig
    \/ CmtReturn

SpecCmt == InitCmt /\ [][NextCmt]_vars

InitScope ==
    /\ \E scope \in Scopes : InitScopeFor(scope)
    /\ \E shapes \in DeclarationLists : InitCmtFor(shapes, NoValue)
    /\ PosIdle /\ TokIdle /\ TravIdle /\ RuleIdle /\ QryIdle /\ RngIdle

NextScope ==
    \/ ApplyLanguageOptions
    \/ ApplyInlineConfig
    \/ CmtReturn
    \/ Finalize

SpecScope == InitScope /\ [][NextScope]_vars

\* The memoized queries on the comments and on the tree of one text.
InitMemo ==
    /\ \E shapes \in MemoCommentLists : InitCmtFor(shapes, NoValue)
    /\ \E tree \in ScopedTrees : InitTravFor(tree)
    /\ PosIdle /\ TokIdle /\ RuleIdle /\ ScopeIdle /\ QryIdle /\ RngIdle

NextMemo ==
    \/ GetInlineConfigNodes
    \/ GetDisableDirectives
    \/ ApplyInlineConfig
    \/ CmtReturn
    \/ TraverseStart
    \/ TraverserEnter
    \/ TraverserLeave
    \/ TraverseReturn
    \/ TraverseCached
    \/ TravReturnTaken

SpecMemo == InitMemo /\ [][NextMemo]_vars

\* isGlobalReference, before and after the core has given its globals.
InitGlobalRef ==
    /\ \E scope \in Scopes : InitScopeFor(scope)
    /\ PosIdle /\ TokIdle /\ TravIdle /\ RuleIdle /\ CmtIdle /\ QryIdle /\ RngIdle

NextGlobalRef ==
    \/ ApplyLanguageOptions
    \/ Finalize
    \/ IsGlobalReference
    \/ QryReturn

SpecGlobalRef == InitGlobalRef /\ [][NextGlobalRef]_vars

\* getScope and markVariableAsUsed, before and after traverse() has given
\* the nodes their parent.
InitNodeScope ==
    /\ \E tree \in ScopedTrees :
           /\ InitTravFor(tree)
           /\ \E kinds \in [NodesOf(tree) -> ScopeKinds], module \in BOOLEAN,
                 pattern \in DeclarationPatterns :
                  /\ kinds[1] = "none"
                  /\ InitQryFor(ScopesOfTree(tree, kinds, module, pattern))
    /\ PosIdle /\ TokIdle /\ RuleIdle /\ CmtIdle /\ ScopeIdle /\ RngIdle

NextNodeScope ==
    \/ TraverseStart
    \/ TraverserEnter
    \/ TraverserLeave
    \/ TraverseReturn
    \/ GetScope
    \/ MarkVariableAsUsed
    \/ QryReturn

SpecNodeScope == InitNodeScope /\ [][NextNodeScope]_vars

\* getNodeByRangeIndex on every tree with ranges, for every index.
InitRange ==
    /\ \E tree \in RangedTrees : InitRngFor(tree)
    /\ PosIdle /\ TokIdle /\ TravIdle /\ RuleIdle /\ CmtIdle /\ ScopeIdle /\ QryIdle

NextRange ==
    \/ GetNodeByRangeIndex
    \/ RangeEnter
    \/ RangeLeave
    \/ RangeReturn
    \/ RangeReturnTaken

SpecRange == InitRange /\ [][NextRange]_vars

\* traverse() with walks that an exception may cut short.
NextTravThrow ==
    \/ TraverseStart
    \/ TraverserEnter
    \/ TraverserLeave
    \/ TraverseThrows
    \/ TraverseReturn
    \/ TraverseCached
    \/ TravReturnTaken

SpecTravThrow == InitTrav /\ [][NextTravThrow]_vars

=============================================================================
